---- MODULE Spec2Model ----
(***************************************************************************)
(* A model of torch/lib/c10d/ProcessGroupNCCL.cpp: one process (one rank)  *)
(* of a ProcessGroupNCCL, its caller threads, its watchdog thread, the     *)
(* Work objects it hands out, and the shared key-value store.  The other   *)
(* ranks, the vendor library and the device are the environment: they set  *)
(* store keys, raise asynchronous communicator errors, complete events and *)
(* let time pass.  The rendezvous of communicator creation is modelled a   *)
(* second time for every rank of the job (procs, jobStore), and the free   *)
(* functions and the constructor's parsing are applied to drawn arguments  *)
(* (pure).                                                                 *)
(*                                                                         *)
(* The build modelled is the one with ENABLE_NCCL_ERROR_CHECKING defined   *)
(* (the watchdog thread is started by the constructor).                    *)
(***************************************************************************)
EXTENDS Integers, Sequences, FiniteSets, TLC

(* ------------------------------ bounds -------------------------------- *)

\* Works handed out by the process group in Spec and SpecMT.
MaxWorks == 1
\* Cap on ncclCommCounter_ (communicator creations started) in Spec and
\* SpecMT.
MaxCreations == 1
\* Works handed out, and cap on ncclCommCounter_, in SpecCache.
MaxCalls == 3
MaxRendezvous == 2
\* Works handed out in SpecReuse.
MaxReuseWorks == 2
\* Cap on the vendor group scopes opened in SpecArgs.
MaxGroupScopes == 2
\* Width of int in bits (32 in the build), scaled down.
IntBits == 4
\* Longest value of NCCL_BLOCKING_WAIT.
MaxEnvLen == 3
\* Width of a ncclUniqueId in bytes (NCCL_UNIQUE_ID_BYTES of the vendor
\* header, 128 there).
NCCL_UNIQUE_ID_BYTES == 2
\* opTimeout_ of the process group, in clock ticks.
OpTimeoutTicks == 1
\* Number of local GPUs (at::cuda::getNumGPUs()).
NumGPUs == 2

\* The steady clock runs from 0 to MaxTime.
MaxTime == OpTimeoutTicks + 1

\* Byte values a ncclUniqueId is made of here.
ByteVals == {1, 17}

\* Caller threads: the main one, and a second one used by SpecMT.
Threads == {1, 2}

\* Ranks this process may be (size_ is 2).
Ranks == {0, 1}

\* Device lists the callers pass to the collectives.
DeviceLists == {<<0>>, <<0, 1>>}

VARIABLES
  rank_,              \* ProcessGroup::rank_
  blockingWait_,      \* ProcessGroupNCCL::blockingWait_
  store,              \* the Store: key -> value, for the keys that are set
  ownSets,            \* keys this process has called store_->set on
  ncclCommCounter_,
  devNCCLCommMap_,    \* DeviceKey -> sequence of communicator handles
  ncclStreams_,       \* DeviceKey -> sequence of streams
  ncclEvents_,        \* DeviceKey -> sequence of sync events
  ncclIdToCommMap_,   \* UniqueIdHex -> sequence of communicator handles
  abortedComms_,      \* set of UniqueIdHex
  usedDeviceIdxs_,
  comms,              \* the NCCLComm objects: handle -> [ncclId, aborted, asyncErr]
  works,              \* the WorkNCCL objects handed out
  now,                \* std::chrono::steady_clock
  thr,                \* caller threads: thread -> frame
  terminateWatchdog_,
  destroyed,          \* ~ProcessGroupNCCL has run
  wd,                 \* the watchdog thread's frame
  crashed,            \* the process has died (null store_, std::terminate)
  lastOp,             \* the call that returned in the last step, and its result
  pure,               \* the pure function applied, its arguments and result
  ncclOp,             \* the reduce-op table: ReduceOp -> vendor op
  groupScopes,        \* vendor group scopes opened so far (ncclGroupStart)
  procs,              \* SpecJob: every rank's process group in getNCCLComm
  jobStore,           \* SpecJob: the Store the ranks of the job share
  mutex_,             \* ProcessGroupNCCL::mutex_: the thread that holds it
  freeMutex,          \* CUDACachingAllocator::getFreeMutex(): who holds it
  dtor                \* where ~ProcessGroupNCCL is

vars == <<pure, ncclOp, groupScopes, procs, jobStore, rank_,
          mutex_, freeMutex, dtor,
          blockingWait_, store, ownSets, ncclCommCounter_,
          devNCCLCommMap_, ncclStreams_, ncclEvents_, ncclIdToCommMap_,
          abortedComms_, usedDeviceIdxs_, comms, works, now, thr,
          terminateWatchdog_, destroyed, wd, crashed, lastOp>>

(* ----------------------------- helpers -------------------------------- *)

\* Finite maps as functions.
EmptyMap == [k \in {} |-> 0]

Put(m, k, v) == [x \in DOMAIN m \cup {k} |-> IF x = k THEN v ELSE m[x]]

\* std::map/unordered_map::emplace: no effect when the key is present.
Emplace(m, k, v) == IF k \in DOMAIN m THEN m ELSE Put(m, k, v)

Range(s) == {s[i] : i \in DOMAIN s}

DecDigit == <<"0", "1", "2", "3", "4", "5", "6", "7", "8", "9">>

HexDigit == <<"0", "1", "2", "3", "4", "5", "6", "7", "8", "9",
              "a", "b", "c", "d", "e", "f">>

\* std::to_string of a non-negative int.
RECURSIVE to_string(_)
to_string(n) ==
  IF n < 10 THEN DecDigit[n + 1]
  ELSE to_string(n \div 10) \o DecDigit[(n % 10) + 1]

\* operator<< of an int under std::hex: no padding, no prefix.
RECURSIVE HexOfInt(_)
HexOfInt(n) ==
  IF n < 16 THEN HexDigit[n + 1]
  ELSE HexOfInt(n \div 16) \o HexDigit[(n % 16) + 1]

\* getKeyFromDevices: the device indices joined by ",".
RECURSIVE getKeyFromDevices(_)
getKeyFromDevices(devices) ==
  IF devices = <<>> THEN ""
  ELSE IF Len(devices) = 1 THEN to_string(devices[1])
  ELSE getKeyFromDevices(SubSeq(devices, 1, Len(devices) - 1))
         \o "," \o to_string(devices[Len(devices)])

\* buildNcclUniqueIdStr: the bytes of the id, each written under std::hex.
RECURSIVE buildNcclUniqueIdStr(_)
buildNcclUniqueIdStr(ncclID) ==
  IF ncclID = <<>> THEN ""
  ELSE buildNcclUniqueIdStr(SubSeq(ncclID, 1, Len(ncclID) - 1))
         \o HexOfInt(ncclID[Len(ncclID)])

kNCCLAbortedCommStoreKey == "NCCLABORTEDCOMM"

getNcclAbortedCommStoreKey(ncclIdStr) ==
  kNCCLAbortedCommStoreKey \o ":" \o ncclIdStr

\* The ncclUniqueId values.
UniqueIds == [1..NCCL_UNIQUE_ID_BYTES -> ByteVals]

\* Ids already minted for this process group (by this rank or by rank 0).
UsedIds == {comms[h].ncclId : h \in DOMAIN comms}
             \cup {store[k] : k \in {x \in DOMAIN store : store[x] # <<>>}}

\* The hex id of a communicator group (all its communicators share the id).
GroupIdStr(g) == buildNcclUniqueIdStr(comms[g[1]].ncclId)

NoErr == "none"
NcclErr == "NCCL error"

\* checkForNCCLErrorsInternal: the first communicator reporting a
\* non-success asynchronous result gives the exception.
checkForNCCLErrors(ncclComms) ==
  IF \E i \in DOMAIN ncclComms : comms[ncclComms[i]].asyncErr
  THEN NcclErr ELSE NoErr

\* NCCLComm::ncclCommAbort on every handle in hs.
AbortAll(cs, hs) ==
  [h \in DOMAIN cs |-> IF h \in hs THEN [cs[h] EXCEPT !.aborted = TRUE]
                       ELSE cs[h]]

Idle == [pc |-> "idle", op |-> "none", devs |-> <<>>, key |-> "",
         skey |-> "", id |-> <<>>, grp |-> <<>>, w |-> 0, exc |-> NoErr,
         ctx |-> "none", barrier |-> FALSE,
         scalar_type |-> "none", reduceOp |-> "none", inputs |-> <<>>,
         sends |-> {}, before |-> <<>>]

NoOp == [op |-> "none", w |-> 0, res |-> "none", before |-> <<>>]

\* A mutex nobody holds.
Free == "free"

\* No pure function has been applied.
NoCall == [fn |-> "none", done |-> TRUE]

\* The reduce ops of the ReduceOp enumeration.
ReduceOps == {"SUM", "PRODUCT", "MIN", "MAX", "BAND"}

\* The NCCL op mapping as defined.
ncclOpInit ==
  [o \in {"MIN", "MAX", "SUM", "PRODUCT"} |->
     CASE o = "MIN" -> "ncclMin" [] o = "MAX" -> "ncclMax"
       [] o = "SUM" -> "ncclSum" [] o = "PRODUCT" -> "ncclProd"]

WdIdle == [pc |-> "top", abortedCommIds |-> {}, allCommIds |-> {},
           errKeys |-> {}, todo |-> {}, notified |-> FALSE]


(* ------------------- the public collective entry points --------------- *)

\* The elements of a std::set<int>, in its iteration order (ascending).
RECURSIVE SetToSeq(_)
SetToSeq(S) ==
  IF S = {} THEN <<>>
  ELSE LET m == CHOOSE x \in S : \A y \in S : x <= y
       IN  <<m>> \o SetToSeq(S \ {m})

\* Threads inside getNCCLComm that have not yet taken a counter value.
BeforeBroadcast == {t \in Threads : thr[t].pc \in {"gc_check", "gc_bcast"}}

\* Threads inside a collective call (each will hand out one Work).
InCall == {t \in Threads : thr[t].op \in {"collective", "p2p"}}

\* A caller may start a collective: the process group is alive and the
\* bounds on Works and on creations leave room for this call.
MayCall(t, devs, maxWorks, maxCreations) ==
  /\ ~crashed /\ ~destroyed
  /\ thr[t].pc = "idle"
  /\ Len(works) + Cardinality(InCall) < maxWorks
  /\ \/ getKeyFromDevices(devs) \in DOMAIN devNCCLCommMap_
     \/ ncclCommCounter_ + Cardinality(BeforeBroadcast) < maxCreations

\* The frame of a driver entered with valid tensors on devs: tensor i has
\* a storage of its own, of a supported type; the send pointers of the
\* point-to-point driver point into the first input tensor.
DriverFrame(op, devs, barrier) ==
  [Idle EXCEPT !.pc = "gc_check", !.op = op, !.devs = devs,
               !.key = getKeyFromDevices(devs), !.barrier = barrier,
               !.scalar_type = IF barrier THEN "kByte" ELSE "kFloat",
               !.reduceOp = IF op = "collective" THEN "SUM" ELSE "none",
               !.inputs = [i \in 1..Len(devs) |-> i],
               !.sends = IF op = "p2p" THEN {1} ELSE {}]

Enter(t, op, devs, barrier) ==
  /\ thr' = [thr EXCEPT ![t] = DriverFrame(op, devs, barrier)]
  /\ lastOp' = NoOp
  /\ UNCHANGED <<pure, ncclOp, groupScopes, procs, jobStore, rank_,
                 mutex_, freeMutex, dtor,
                 blockingWait_, store, ownSets, ncclCommCounter_,
                 devNCCLCommMap_, ncclStreams_, ncclEvents_, ncclIdToCommMap_,
                 abortedComms_, usedDeviceIdxs_, comms, works, now,
                 terminateWatchdog_, destroyed, wd, crashed>>

\* allreduce, broadcast, reduce, allgather, reduce_scatter on valid tensors:
\* validation passes and collective() is entered with the tensors' devices.
CallCollective(t, devs, maxWorks, maxCreations) ==
  /\ MayCall(t, devs, maxWorks, maxCreations)
  /\ Enter(t, "collective", devs, FALSE)

\* The devices barrier() picks.
BarrierDevices ==
  IF usedDeviceIdxs_ = {} THEN <<rank_ % NumGPUs>>
  ELSE SetToSeq(usedDeviceIdxs_)

\* barrier(): an allreduce over one placeholder tensor per device.
CallBarrier(t, maxWorks, maxCreations) ==
  /\ MayCall(t, BarrierDevices, maxWorks, maxCreations)
  /\ Enter(t, "collective", BarrierDevices, TRUE)

\* alltoall_base and alltoall on valid tensors: batchedp2p is entered with
\* the single input tensor's device.
CallAllToAll(t, dev, maxWorks, maxCreations) ==
  /\ MayCall(t, <<dev>>, maxWorks, maxCreations)
  /\ Enter(t, "p2p", <<dev>>, FALSE)

(* ----------------------------- getNCCLComm ---------------------------- *)

\* The thread returns from its call with result res.
Return(t, op, w, res) ==
  /\ thr' = [thr EXCEPT ![t] = Idle]
  /\ lastOp' = [op |-> op, w |-> w, res |-> res, before |-> thr[t].before]

\* Faulty variant: a group whose communicators were aborted is a miss.
CacheHit_UnlessAborted(devicesKey) ==
  /\ devicesKey \in DOMAIN devNCCLCommMap_
  /\ \E h \in Range(devNCCLCommMap_[devicesKey]) : ~comms[h].aborted

\* The lookup devNCCLCommMap_.find(devicesKey) != devNCCLCommMap_.end().
CacheHit(devicesKey) == devicesKey \in DOMAIN devNCCLCommMap_

\* getNCCLComm up to the cache lookup; mutex_ is taken for the lookup and
\* released after it.
GetNCCLCommCheck(t) ==
  /\ ~crashed
  /\ thr[t].pc = "gc_check"
  /\ mutex_ = Free
  /\ usedDeviceIdxs_' = usedDeviceIdxs_ \cup Range(thr[t].devs)
  /\ IF CacheHit(thr[t].key)
     THEN thr' = [thr EXCEPT ![t].pc = "submit",
                             ![t].grp = devNCCLCommMap_[thr[t].key]]
     ELSE thr' = [thr EXCEPT ![t].pc = "gc_bcast"]
  /\ lastOp' = NoOp
  /\ UNCHANGED <<pure, ncclOp, groupScopes, procs, jobStore, rank_,
                 mutex_, freeMutex, dtor,
                 blockingWait_, store, ownSets, ncclCommCounter_,
                 devNCCLCommMap_, ncclStreams_, ncclEvents_, ncclIdToCommMap_,
                 abortedComms_, comms, works, now, terminateWatchdog_,
                 destroyed, wd, crashed>>

\* ncclGetUniqueId on rank 0, then broadcastUniqueNCCLID up to the store
\* call: the counter is taken and advanced; rank 0 sets the key.
GetNCCLCommBroadcast(t, pool) ==
  /\ ~crashed
  /\ thr[t].pc = "gc_bcast"
  /\ ncclCommCounter_' = ncclCommCounter_ + 1
  /\ LET storeKey == to_string(ncclCommCounter_) IN
     IF rank_ = 0
     THEN \E ncclID \in pool \ UsedIds :
            /\ store' = Put(store, storeKey, ncclID)
            /\ ownSets' = ownSets \cup {storeKey}
            /\ thr' = [thr EXCEPT ![t].pc = "gc_create",
                                  ![t].skey = storeKey,
                                  ![t].id = ncclID]
     ELSE /\ thr' = [thr EXCEPT ![t].pc = "gc_get", ![t].skey = storeKey]
          /\ UNCHANGED <<store, ownSets>>
  /\ lastOp' = NoOp
  /\ UNCHANGED <<pure, ncclOp, groupScopes, procs, jobStore, rank_,
                 mutex_, freeMutex, dtor,
                 blockingWait_, devNCCLCommMap_, ncclStreams_,
                 ncclEvents_, ncclIdToCommMap_, abortedComms_,
                 usedDeviceIdxs_, comms, works, now, terminateWatchdog_,
                 destroyed, wd, crashed>>

\* store_->get(storeKey) on a rank other than 0: blocks until the key is set.
GetNCCLCommGet(t) ==
  /\ ~crashed
  /\ thr[t].pc = "gc_get"
  /\ thr[t].skey \in DOMAIN store
  /\ Len(store[thr[t].skey]) = NCCL_UNIQUE_ID_BYTES
  /\ thr' = [thr EXCEPT ![t].pc = "gc_create", ![t].id = store[thr[t].skey]]
  /\ lastOp' = NoOp
  /\ UNCHANGED <<pure, ncclOp, groupScopes, procs, jobStore, rank_,
                 mutex_, freeMutex, dtor,
                 blockingWait_, store, ownSets, ncclCommCounter_,
                 devNCCLCommMap_, ncclStreams_, ncclEvents_, ncclIdToCommMap_,
                 abortedComms_, usedDeviceIdxs_, comms, works, now,
                 terminateWatchdog_, destroyed, wd, crashed>>

\* The stream and sync-event entries getNCCLComm builds for its devices.
NewStreams(devs) == [i \in 1..Len(devs) |-> [device |-> devs[i]]]

\* Faulty variant: a single sync event whatever the number of devices.
NewEvents_One(devs) == <<"cudaEventDisableTiming">>

NewEvents(devs) == [i \in 1..Len(devs) |-> "cudaEventDisableTiming"]

\* The grouped construction: one NCCLComm per device, then the stream and
\* sync-event entries are emplaced (outside mutex_).
GetNCCLCommCreate(t) ==
  /\ ~crashed
  /\ thr[t].pc = "gc_create"
  /\ LET n == Len(thr[t].devs)
         base == Len(comms)
     IN  /\ comms' = comms \o [i \in 1..n |->
                       [ncclId |-> thr[t].id, aborted |-> FALSE,
                        asyncErr |-> FALSE]]
         /\ thr' = [thr EXCEPT ![t].pc = "gc_publish",
                               ![t].grp = [i \in 1..n |-> base + i]]
  /\ ncclStreams_' = Emplace(ncclStreams_, thr[t].key, NewStreams(thr[t].devs))
  /\ ncclEvents_' = Emplace(ncclEvents_, thr[t].key, NewEvents(thr[t].devs))
  /\ groupScopes' = groupScopes + 1
  /\ lastOp' = NoOp
  /\ UNCHANGED <<pure, ncclOp, procs, jobStore, rank_,
                 mutex_, freeMutex, dtor,
                 blockingWait_, store, ownSets, ncclCommCounter_,
                 devNCCLCommMap_, ncclIdToCommMap_, abortedComms_,
                 usedDeviceIdxs_, works, now, terminateWatchdog_, destroyed,
                 wd, crashed>>

\* ncclGroupStart, NCCLComm::create or ncclGroupEnd fails: getNCCLComm
\* throws before anything is emplaced (the group scope was opened unless
\* ncclGroupStart is what failed).
GetNCCLCommCreateFails(t) ==
  /\ ~crashed
  /\ thr[t].pc = "gc_create"
  /\ Return(t, thr[t].op, 0, "error")
  /\ groupScopes' \in {groupScopes, groupScopes + 1}
  /\ UNCHANGED <<pure, ncclOp, procs, jobStore, rank_,
                 mutex_, freeMutex, dtor,
                 blockingWait_, store, ownSets, ncclCommCounter_,
                 devNCCLCommMap_, ncclStreams_, ncclEvents_, ncclIdToCommMap_,
                 abortedComms_, usedDeviceIdxs_, comms, works, now,
                 terminateWatchdog_, destroyed, wd, crashed>>

\* The reverse index after getNCCLComm's emplace.
PublishIdToComm(m, ncclID, ncclComms) ==
  Emplace(m, buildNcclUniqueIdStr(ncclID), ncclComms)

\* mutex_ is taken; under it: emplace into the reverse index and into the
\* cache, and return the cache's entry.
GetNCCLCommPublish(t) ==
  /\ ~crashed
  /\ thr[t].pc = "gc_publish"
  /\ mutex_ = Free
  /\ ncclIdToCommMap_' = PublishIdToComm(ncclIdToCommMap_, thr[t].id, thr[t].grp)
  /\ devNCCLCommMap_' = Emplace(devNCCLCommMap_, thr[t].key, thr[t].grp)
  /\ thr' = [thr EXCEPT ![t].pc = "submit",
                        ![t].grp = devNCCLCommMap_'[thr[t].key]]
  /\ lastOp' = NoOp
  /\ UNCHANGED <<pure, ncclOp, groupScopes, procs, jobStore, rank_,
                 mutex_, freeMutex, dtor,
                 blockingWait_, store, ownSets, ncclCommCounter_,
                 ncclStreams_, ncclEvents_, abortedComms_, usedDeviceIdxs_,
                 comms, works, now, terminateWatchdog_, destroyed, wd,
                 crashed>>

(* ------------------- collective() and batchedp2p() -------------------- *)

\* Whether the driver copies store_ into the Work: collective() does,
\* batchedp2p() does not.
WorkHasStore(op) == op = "collective"

\* The WorkNCCL a driver returns: initWork(devices) at the clock's value,
\* then the comms, blockingWait_, opTimeout_ (and store_) copied in.
NewWork(op, devs, grp, barrier) ==
  [devices |-> devs,
   cudaEvents_ |-> [i \in 1..Len(devs) |-> FALSE],
   ncclComms_ |-> grp,
   blockingWait_ |-> blockingWait_,
   opTimeout_ |-> OpTimeoutTicks,
   store_ |-> WorkHasStore(op),
   exception_ |-> NoErr,
   workStartTime_ |-> now,
   barrierTensors_ |-> barrier,
   op |-> op]

\* The scalar types of the NCCL type mapping.
ncclDataType ==
  {"kChar", "kByte", "kFloat", "kDouble", "kInt", "kLong", "kHalf"}

\* std::map::operator[] on the reduce-op table: a missing key is inserted
\* with a value-initialized vendor op.
ncclOpAfterLookup(reduceOp) ==
  IF reduceOp = "none" \/ reduceOp \in DOMAIN ncclOp THEN ncclOp
  ELSE Put(ncclOp, reduceOp, "ncclRedOp_t()")

\* The concatenation of a sequence of sequences.
RECURSIVE Concat(_)
Concat(ss) ==
  IF ss = <<>> THEN <<>>
  ELSE Concat(SubSeq(ss, 1, Len(ss) - 1)) \o ss[Len(ss)]

\* One call of a driver: what is called, for which device of the call
\* (0: for none in particular) and on which collective stream
\* ncclStreams_[key][stream - 1] (0: on none; the sync event is recorded on
\* the device's current stream).
Step(act, i, stream) == [act |-> act, i |-> i, stream |-> stream]

\* Faulty variant: the completion events are recorded inside the group.
DriverTrace_RecordInsideGroup(op, n) ==
  Concat([i \in 1..n |-> <<Step("ncclEvent.record", i, 0),
                            Step("ncclEvent.block", i, i)>>])
    \o <<Step("initWork", 0, 0)>>
    \o (IF op = "collective" THEN <<Step("pre", 0, 0)>> ELSE <<>>)
    \o [i \in 1..n |-> Step("recordStream", i, i)]
    \o <<Step("ncclGroupStart", 0, 0)>>
    \o [i \in 1..n |-> Step("fn", i, i)]
    \o [i \in 1..n |-> Step("cudaEvents_.record", i, i)]
    \o <<Step("ncclGroupEnd", 0, 0)>>
    \o (IF op = "collective" THEN <<Step("post", 0, 0)>> ELSE <<>>)

\* The calls collective() and batchedp2p() make for a call over n devices,
\* in their order: syncStreams, initWork, pre, recordStream of the inputs,
\* the grouped submission (fn per device on that device's stream; a
\* send/recv pair per peer on the first communicator and the first
\* stream), post or recordStream of the outputs, and the completion events.
DriverTrace(op, n) ==
  Concat([i \in 1..n |-> <<Step("ncclEvent.record", i, 0),
                            Step("ncclEvent.block", i, i)>>])
    \o <<Step("initWork", 0, 0)>>
    \o (IF op = "collective" THEN <<Step("pre", 0, 0)>> ELSE <<>>)
    \o [i \in 1..n |-> Step("recordStream", i, i)]
    \o <<Step("ncclGroupStart", 0, 0)>>
    \o (IF op = "collective"
        THEN [i \in 1..n |-> Step("fn", i, i)]
        ELSE Concat([peer \in 1..Cardinality(Ranks) |->
                       <<Step("ncclSend", 1, 1), Step("ncclRecv", 1, 1)>>]))
    \o <<Step("ncclGroupEnd", 0, 0)>>
    \o (IF op = "collective" THEN <<Step("post", 0, 0)>>
        ELSE [i \in 1..n |-> Step("recordStream", i, i)])
    \o [i \in 1..n |-> Step("cudaEvents_.record", i, i)]

\* What the driver registers with the caching allocator before the grouped
\* submission (storage, DeviceKey, stream index), and what the submission
\* asks the vendor library to read and to reduce with.
Submission(t) ==
  [reduceOp |-> thr[t].reduceOp,
   redOp |-> IF thr[t].reduceOp = "none" THEN "none"
             ELSE ncclOpAfterLookup(thr[t].reduceOp)[thr[t].reduceOp],
   trace |-> DriverTrace(thr[t].op, Len(thr[t].devs)),
   recorded |-> {<<thr[t].inputs[i], thr[t].key, i>> :
                   i \in 1..Len(thr[t].devs)},
   reads |-> IF thr[t].op = "p2p"
             THEN {<<s, thr[t].key, 1>> : s \in thr[t].sends}
             ELSE {<<thr[t].inputs[i], thr[t].key, i>> :
                     i \in 1..Len(thr[t].devs)}]

\* The first fn of collective() throws: getNcclDataType does not know the
\* tensors' scalar type.
FnThrows(t) ==
  /\ thr[t].op = "collective"
  /\ thr[t].scalar_type \notin ncclDataType

\* The rest of collective() / batchedp2p() after getNCCLComm: stream sync,
\* initWork, the input storages recorded, the grouped submission, the
\* completion events recorded, the Work returned.  When the first fn throws
\* inside the group scope the call fails there; the arguments of the vendor
\* call are evaluated in an unspecified order, so the table lookup may or
\* may not have happened.
Submit(t) ==
  /\ ~crashed
  /\ thr[t].pc = "submit"
  /\ freeMutex = {}
  /\ groupScopes' = groupScopes + 1
  /\ IF FnThrows(t)
     THEN /\ ncclOp' \in {ncclOp, ncclOpAfterLookup(thr[t].reduceOp)}
          /\ Return(t, thr[t].op, 0, "invalid")
          /\ UNCHANGED works
     ELSE /\ ncclOp' = ncclOpAfterLookup(thr[t].reduceOp)
          /\ works' = Append(works,
                         NewWork(thr[t].op, thr[t].devs, thr[t].grp,
                                 thr[t].barrier) @@ Submission(t))
          /\ Return(t, thr[t].op, Len(works) + 1, "work")
  /\ UNCHANGED <<pure, procs, jobStore, rank_,
                 mutex_, freeMutex, dtor, blockingWait_, store, ownSets,
                 ncclCommCounter_,
                 devNCCLCommMap_, ncclStreams_, ncclEvents_, ncclIdToCommMap_,
                 abortedComms_, usedDeviceIdxs_, comms, now,
                 terminateWatchdog_, destroyed, wd, crashed>>

\* What a vendor call returns.
ncclResult == {"ncclSuccess", "ncclSystemError"}

\* The scope { AutoNcclGroup nccl_group_guard; ... } run by thread t when
\* ncclGroupStart returns start, the body fails or not, and ncclGroupEnd
\* returns end.  The constructor locks the free mutex and then checks
\* ncclGroupStart: when it throws, the object was never constructed and its
\* destructor does not run.  The destructor checks ncclGroupEnd and then
\* unlocks: when it throws, the unlock is skipped, and when it throws while
\* the body's exception unwinds the stack, std::terminate is called.
AutoNcclGroup(t, start, bodyThrows, end) ==
  IF start # "ncclSuccess"
  THEN [opened |-> FALSE, exit |-> "throws", freeMutex |-> {t}]
  ELSE IF end = "ncclSuccess"
  THEN [opened |-> TRUE, exit |-> IF bodyThrows THEN "throws" ELSE "ok",
        freeMutex |-> {}]
  ELSE [opened |-> TRUE,
        exit |-> IF bodyThrows THEN "terminate" ELSE "throws",
        freeMutex |-> {t}]

\* The rest of collective() / batchedp2p() after getNCCLComm when a vendor
\* call of the grouped submission fails: ncclGroupStart, an fn / ncclSend /
\* ncclRecv of the body, or ncclGroupEnd.
SubmitVendorFails(t) ==
  /\ ~crashed
  /\ thr[t].pc = "submit"
  /\ freeMutex = {}
  /\ groupScopes < MaxGroupScopes
  /\ \E start, fn, end \in ncclResult :
       LET bodyThrows == FnThrows(t) \/ fn # "ncclSuccess"
           scope == AutoNcclGroup(t, start, bodyThrows, end)
       IN  /\ \/ start # "ncclSuccess"
              \/ fn # "ncclSuccess"
              \/ end # "ncclSuccess"
           /\ freeMutex' = scope.freeMutex
           /\ groupScopes' = IF scope.opened THEN groupScopes + 1
                             ELSE groupScopes
           /\ IF scope.opened
              THEN ncclOp' \in {ncclOp, ncclOpAfterLookup(thr[t].reduceOp)}
              ELSE ncclOp' = ncclOp
           /\ IF scope.exit = "terminate"
              THEN crashed' = TRUE /\ UNCHANGED <<thr, lastOp>>
              ELSE /\ crashed' = crashed
                   /\ Return(t, thr[t].op, 0,
                             IF FnThrows(t) /\ start = "ncclSuccess"
                             THEN "invalid" ELSE "nccl_error")
  /\ UNCHANGED <<pure, procs, jobStore, rank_,
                 mutex_, dtor, blockingWait_, store, ownSets,
                 ncclCommCounter_,
                 devNCCLCommMap_, ncclStreams_, ncclEvents_, ncclIdToCommMap_,
                 abortedComms_, usedDeviceIdxs_, comms, works, now,
                 terminateWatchdog_, destroyed, wd>>


(* --------------- the entry points with their arguments ---------------- *)

\* A tensor as the validation and the drivers see it.
Tensor(device, scalar_type, is_cuda, is_contiguous, sizes, storage) ==
  [device |-> device, scalar_type |-> scalar_type, is_cuda |-> is_cuda,
   is_contiguous |-> is_contiguous, sizes |-> sizes, storage |-> storage]

\* The tensors the callers pass: two good ones on two devices, one of a
\* scalar type the NCCL type mapping lacks, a non-contiguous one, one of
\* another type and shape, and a CPU tensor.
TensorPool ==
  {Tensor(0, "kFloat", TRUE, TRUE, <<1>>, 1),
   Tensor(1, "kFloat", TRUE, TRUE, <<1>>, 2),
   Tensor(0, "kBool", TRUE, TRUE, <<1>>, 3),
   Tensor(1, "kFloat", TRUE, FALSE, <<1>>, 4),
   Tensor(1, "kDouble", TRUE, TRUE, <<2>>, 5),
   Tensor(0 - 1, "kFloat", FALSE, TRUE, <<1>>, 6)}

\* The tensor lists the callers pass: every list of at most as many
\* tensors as there are GPUs, and one list of one tensor more.
TensorLists ==
  UNION {[1..n -> TensorPool] : n \in 0..NumGPUs}
    \cup {[i \in 1..(NumGPUs + 1) |-> Tensor(0, "kFloat", TRUE, TRUE, <<1>>, 1)]}

\* check_gpu_tensors_multi passes (it throws otherwise).
check_gpu_tensors_multi(tensors, alltoallv) ==
  /\ Len(tensors) # 0
  /\ alltoallv \/ Len(tensors) <= NumGPUs
  /\ \A i \in DOMAIN tensors :
       /\ tensors[i].is_cuda
       /\ tensors[i].scalar_type = tensors[1].scalar_type
       /\ alltoallv \/ tensors[i].sizes = tensors[1].sizes
       /\ tensors[i].is_contiguous
  /\ alltoallv \/ \A i, j \in DOMAIN tensors :
                     i # j => tensors[i].device # tensors[j].device

check_gpu_tensors(tensors) == check_gpu_tensors_multi(tensors, FALSE)

\* getDeviceList.
getDeviceList(tensors) == [i \in DOMAIN tensors |-> tensors[i].device]

\* What a failed call must leave alone: the four caches, the used device
\* indices, the rendezvous counter, the store, the reduce-op table, the
\* communicators created and the vendor group scopes opened.
Snapshot ==
  [devNCCLCommMap_ |-> devNCCLCommMap_, ncclStreams_ |-> ncclStreams_,
   ncclEvents_ |-> ncclEvents_, ncclIdToCommMap_ |-> ncclIdToCommMap_,
   usedDeviceIdxs_ |-> usedDeviceIdxs_, ncclCommCounter_ |-> ncclCommCounter_,
   store |-> store, ncclOp |-> ncclOp, comms |-> Len(comms),
   groupScopes |-> groupScopes]

\* An entry point throws before it reaches a driver.
Throw(t, op, res) ==
  /\ thr' = [thr EXCEPT ![t] = Idle]
  /\ lastOp' = [op |-> op, w |-> 0, res |-> res, before |-> Snapshot]
  /\ UNCHANGED <<pure, ncclOp, groupScopes, procs, jobStore, rank_,
                 mutex_, freeMutex, dtor,
                 blockingWait_, store, ownSets, ncclCommCounter_,
                 devNCCLCommMap_, ncclStreams_, ncclEvents_, ncclIdToCommMap_,
                 abortedComms_, usedDeviceIdxs_, comms, works, now,
                 terminateWatchdog_, destroyed, wd, crashed>>

\* A driver is entered with frame f.
Drive(t, f) ==
  /\ thr' = [thr EXCEPT ![t] = [f EXCEPT !.before = Snapshot]]
  /\ lastOp' = NoOp
  /\ UNCHANGED <<pure, ncclOp, groupScopes, procs, jobStore, rank_,
                 mutex_, freeMutex, dtor,
                 blockingWait_, store, ownSets, ncclCommCounter_,
                 devNCCLCommMap_, ncclStreams_, ncclEvents_, ncclIdToCommMap_,
                 abortedComms_, usedDeviceIdxs_, comms, works, now,
                 terminateWatchdog_, destroyed, wd, crashed>>

\* allreduce(tensors, opts) (reduce is alike): check_gpu_tensors, then
\* collective() with an fn that maps the scalar type and the reduce op.
CallAllreduce(t, tensors, reduceOp, maxWorks, maxCreations) ==
  /\ ~crashed /\ ~destroyed
  /\ thr[t].pc = "idle"
  /\ groupScopes < MaxGroupScopes
  /\ IF ~check_gpu_tensors(tensors)
     THEN Throw(t, "allreduce", "invalid")
     ELSE /\ MayCall(t, getDeviceList(tensors), maxWorks, maxCreations)
          /\ Drive(t, [DriverFrame("collective", getDeviceList(tensors), FALSE)
                         EXCEPT !.scalar_type = tensors[1].scalar_type,
                                !.reduceOp = reduceOp,
                                !.inputs = [i \in DOMAIN tensors |->
                                              tensors[i].storage]])

\* alltoall(outputTensors, inputTensors, opts) with matching outputs: the
\* list sizes and the tensors are checked, the send pointers are those of
\* the input tensors, the scalar type is mapped, and batchedp2p is entered
\* with the first input tensor alone.
CallAllToAllList(t, inputTensors, maxWorks, maxCreations) ==
  /\ ~crashed /\ ~destroyed
  /\ thr[t].pc = "idle"
  /\ groupScopes < MaxGroupScopes
  /\ IF \/ Len(inputTensors) # Cardinality(Ranks)
        \/ ~check_gpu_tensors_multi(inputTensors, TRUE)
        \/ inputTensors[1].scalar_type \notin ncclDataType
     THEN Throw(t, "alltoall", "invalid")
     ELSE /\ MayCall(t, <<inputTensors[1].device>>, maxWorks, maxCreations)
          /\ Drive(t, [DriverFrame("p2p", <<inputTensors[1].device>>, FALSE)
                         EXCEPT !.scalar_type = inputTensors[1].scalar_type,
                                !.inputs = <<inputTensors[1].storage>>,
                                !.sends = {inputTensors[i].storage :
                                             i \in DOMAIN inputTensors}])

\* The entry points that only throw.
UnsupportedEntryPoints ==
  {"allreduce_coalesced", "allgather_coalesced", "allgather_base", "gather",
   "scatter", "send", "recv", "recvAnysource"}

\* Faulty variant: send hands out a Work.
UnsupportedResult_SendWorks(name) ==
  IF name = "send" THEN "work" ELSE "unsupported"

\* How a call of one of them, or of WorkNCCL::abort, ends.
UnsupportedResult(name) == "unsupported"

\* One of the unsupported entry points is called with some tensors.
CallUnsupported(t, name, tensors) ==
  /\ ~crashed /\ ~destroyed
  /\ thr[t].pc = "idle"
  /\ name \in UnsupportedEntryPoints
  /\ Throw(t, name, UnsupportedResult(name))

(* ------------------------------ WorkNCCL ------------------------------ *)

\* finishedGPUExecutionInternal: every completion event reports ready.
finishedGPUExecutionInternal(w) ==
  \A i \in DOMAIN works[w].cudaEvents_ : works[w].cudaEvents_[i]

\* exception(): the error slot, read under the Work's mutex.
exception(w) == works[w].exception_ # NoErr

\* Faulty variant: the completion events are not consulted.
isSuccess_NoEvents(w) ==
  IF exception(w) THEN FALSE
  ELSE checkForNCCLErrors(works[w].ncclComms_) = NoErr

\* isSuccess, evaluated at one instant.
isSuccess(w) ==
  IF exception(w) THEN FALSE
  ELSE /\ checkForNCCLErrors(works[w].ncclComms_) = NoErr
       /\ finishedGPUExecutionInternal(w)

\* isCompleted after its checkAndSetException().
isCompletedResult(w) == exception(w) \/ finishedGPUExecutionInternal(w)

\* A caller may use Work w.
MayUse(t, w) ==
  /\ ~crashed
  /\ thr[t].pc = "idle"
  /\ w \in DOMAIN works

OnlyThr == <<pure, ncclOp, groupScopes, procs, jobStore, rank_,
             mutex_, freeMutex, dtor,
             blockingWait_, store, ownSets, ncclCommCounter_,
             devNCCLCommMap_, ncclStreams_, ncclEvents_, ncclIdToCommMap_,
             abortedComms_, usedDeviceIdxs_, comms, works, now,
             terminateWatchdog_, destroyed, wd, crashed>>

\* A bool result as the caller sees it.
BoolStr(b) == IF b THEN "true" ELSE "false"

\* WorkNCCL::abort on Work w.
CallAbort(t, w) ==
  /\ MayUse(t, w)
  /\ thr' = [thr EXCEPT ![t] = Idle]
  /\ lastOp' = [op |-> "abort", w |-> w, res |-> UnsupportedResult("abort"),
                before |-> Snapshot]
  /\ UNCHANGED OnlyThr

CallIsSuccess(t, w) ==
  /\ MayUse(t, w)
  /\ Return(t, "isSuccess", w, BoolStr(isSuccess(w)))
  /\ UNCHANGED OnlyThr

\* isCompleted() is entered: its checkAndSetException() comes first.
CallIsCompleted(t, w) ==
  /\ MayUse(t, w)
  /\ thr' = [thr EXCEPT ![t] = [Idle EXCEPT !.pc = "cse_read",
                                  !.op = "isCompleted", !.w = w,
                                  !.ctx = "isCompleted"]]
  /\ lastOp' = NoOp
  /\ UNCHANGED OnlyThr

\* Where checkAndSetException() returns to.
After(ctx) ==
  CASE ctx = "isCompleted" -> "ic_ret"
    [] ctx = "loopcond" -> "sync_cond"
    [] ctx = "loopthrow" -> "sync_throw"
    [] ctx = "final" -> "sync_final"

\* checkAndSetException up to the lock: return if the slot is set, else
\* query the communicators.
CheckAndSetExceptionRead(t) ==
  /\ ~crashed
  /\ thr[t].pc = "cse_read"
  /\ IF exception(thr[t].w)
     THEN thr' = [thr EXCEPT ![t].pc = After(thr[t].ctx)]
     ELSE thr' = [thr EXCEPT ![t].pc = "cse_write",
                    ![t].exc = checkForNCCLErrors(works[thr[t].w].ncclComms_)]
  /\ lastOp' = NoOp
  /\ UNCHANGED OnlyThr

\* checkAndSetException under the Work's mutex: exception_ = exception_ptr.
CheckAndSetExceptionWrite(t) ==
  /\ ~crashed
  /\ thr[t].pc = "cse_write"
  /\ works' = [works EXCEPT ![thr[t].w].exception_ = thr[t].exc]
  /\ thr' = [thr EXCEPT ![t].pc = After(thr[t].ctx), ![t].exc = NoErr]
  /\ lastOp' = NoOp
  /\ UNCHANGED <<pure, ncclOp, groupScopes, procs, jobStore, rank_,
                 mutex_, freeMutex, dtor,
                 blockingWait_, store, ownSets, ncclCommCounter_,
                 devNCCLCommMap_, ncclStreams_, ncclEvents_, ncclIdToCommMap_,
                 abortedComms_, usedDeviceIdxs_, comms, now,
                 terminateWatchdog_, destroyed, wd, crashed>>

IsCompletedReturn(t) ==
  /\ ~crashed
  /\ thr[t].pc = "ic_ret"
  /\ Return(t, "isCompleted", thr[t].w, BoolStr(isCompletedResult(thr[t].w)))
  /\ UNCHANGED OnlyThr

\* Whether synchronize() enters its busy-wait loop.
SyncBlocks(w) == works[w].blockingWait_

\* synchronize() after its loop over the devices: the busy-wait loop is
\* entered; without blocking wait the call returns.
SyncEnterLoop(t, w) ==
  IF SyncBlocks(w)
  THEN /\ thr' = [thr EXCEPT ![t] = [Idle EXCEPT !.pc = "cse_read",
                                       !.op = "synchronize", !.w = w,
                                       !.ctx = "loopcond"]]
       /\ lastOp' = NoOp
  ELSE Return(t, "synchronize", w, "ok")

\* synchronize() (and wait(), which only calls it): the current streams are
\* made to wait on the completion events; the Work of a barrier goes on to
\* cudaDeviceSynchronize().
CallSynchronize(t, w) ==
  /\ MayUse(t, w)
  /\ IF works[w].barrierTensors_
     THEN /\ thr' = [thr EXCEPT ![t] = [Idle EXCEPT !.pc = "sync_device",
                                          !.op = "synchronize", !.w = w]]
          /\ lastOp' = NoOp
     ELSE SyncEnterLoop(t, w)
  /\ UNCHANGED OnlyThr

\* cudaDeviceSynchronize() has returned on every device of a barrier's
\* Work: each device has completed all its preceding work, the collective
\* and its completion event included.
SyncDeviceSynchronize(t) ==
  /\ ~crashed
  /\ thr[t].pc = "sync_device"
  /\ finishedGPUExecutionInternal(thr[t].w)
  /\ SyncEnterLoop(t, thr[t].w)
  /\ UNCHANGED OnlyThr

\* The timeout test of the busy-wait loop.
TimedOut(w) == now - works[w].workStartTime_ > works[w].opTimeout_

\* while (!isCompleted()), after isCompleted's checkAndSetException: leave
\* the loop, or take the timeout branch, or go on to checkAndThrowException.
SyncLoopCond(t) ==
  /\ ~crashed
  /\ thr[t].pc = "sync_cond"
  /\ thr' = IF isCompletedResult(thr[t].w)
            THEN [thr EXCEPT ![t].pc = "cse_read", ![t].ctx = "final"]
            ELSE IF TimedOut(thr[t].w)
            THEN [thr EXCEPT ![t].pc = "sync_timeout"]
            ELSE [thr EXCEPT ![t].pc = "cse_read", ![t].ctx = "loopthrow"]
  /\ lastOp' = NoOp
  /\ UNCHANGED OnlyThr

\* The abort-store keys of a Work's communicators.
WorkAbortKeys(w) ==
  {getNcclAbortedCommStoreKey(buildNcclUniqueIdStr(comms[h].ncclId)) :
     h \in Range(works[w].ncclComms_)}

\* store_->set(key, {}) for every key in ks.
SetAll(st, ks) == [k \in DOMAIN st \cup ks |-> IF k \in ks THEN <<>> ELSE st[k]]

\* The communicators the timeout branch aborts.
TimeoutAborts(w) == Range(works[w].ncclComms_)

\* The timeout branch with a store_: every communicator is aborted and its
\* key set, then "Operation timed out!" is thrown.
SyncTimeout(t) ==
  /\ ~crashed
  /\ thr[t].pc = "sync_timeout"
  /\ works[thr[t].w].store_
  /\ comms' = AbortAll(comms, TimeoutAborts(thr[t].w))
  /\ store' = SetAll(store, WorkAbortKeys(thr[t].w))
  /\ ownSets' = ownSets \cup WorkAbortKeys(thr[t].w)
  /\ Return(t, "synchronize", thr[t].w, "timeout")
  /\ UNCHANGED <<pure, ncclOp, groupScopes, procs, jobStore, rank_,
                 mutex_, freeMutex, dtor,
                 blockingWait_, ncclCommCounter_, devNCCLCommMap_,
                 ncclStreams_, ncclEvents_, ncclIdToCommMap_, abortedComms_,
                 usedDeviceIdxs_, works, now, terminateWatchdog_, destroyed,
                 wd, crashed>>

\* The timeout branch of a Work whose store_ was never assigned: the first
\* communicator is aborted and store_->set dereferences a null shared_ptr.
\* That is undefined: the process dies there, or the call has no effect and
\* the loop goes on to the throw.
SyncTimeoutNullStore(t) ==
  /\ ~crashed
  /\ thr[t].pc = "sync_timeout"
  /\ ~works[thr[t].w].store_
  /\ \/ /\ comms' = AbortAll(comms, {works[thr[t].w].ncclComms_[1]})
        /\ crashed' = TRUE
        /\ lastOp' = [op |-> "synchronize", w |-> thr[t].w, res |-> "crash",
                      before |-> <<>>]
        /\ UNCHANGED thr
     \/ /\ comms' = AbortAll(comms, TimeoutAborts(thr[t].w))
        /\ Return(t, "synchronize", thr[t].w, "timeout")
        /\ UNCHANGED crashed
  /\ UNCHANGED <<pure, ncclOp, groupScopes, procs, jobStore, rank_,
                 mutex_, freeMutex, dtor,
                 blockingWait_, store, ownSets, ncclCommCounter_,
                 devNCCLCommMap_, ncclStreams_, ncclEvents_, ncclIdToCommMap_,
                 abortedComms_, usedDeviceIdxs_, works, now,
                 terminateWatchdog_, destroyed, wd>>

\* checkAndThrowException inside the loop, after its checkAndSetException:
\* rethrow a captured error, else sleep and test the loop condition again.
SyncLoopThrow(t) ==
  /\ ~crashed
  /\ thr[t].pc = "sync_throw"
  /\ IF exception(thr[t].w)
     THEN Return(t, "synchronize", thr[t].w, "error")
     ELSE /\ thr' = [thr EXCEPT ![t].pc = "cse_read", ![t].ctx = "loopcond"]
          /\ lastOp' = NoOp
  /\ UNCHANGED OnlyThr

\* Faulty variant: the final checkAndThrowException is missing.
SyncFinalResult_NoRethrow(w) == "ok"

\* What synchronize() ends with once the loop is left: the final
\* checkAndThrowException rethrows a captured error.
SyncFinalResult(w) == IF exception(w) THEN "error" ELSE "ok"

SyncFinal(t) ==
  /\ ~crashed
  /\ thr[t].pc = "sync_final"
  /\ Return(t, "synchronize", thr[t].w, SyncFinalResult(thr[t].w))
  /\ UNCHANGED OnlyThr

(* ---------------- getNCCLComm on every rank of the job ---------------- *)

\* The single-device lists the ranks of the job pass to getNCCLComm.
JobDeviceLists == {<<d>> : d \in 0..(NumGPUs - 1)}

\* A rank's process group after construction: the counter is 0 and the
\* cache is empty.  cache maps a DeviceKey to the ncclUniqueId its group
\* was constructed with; order lists the DeviceKeys in creation order.
ProcInit == [pc |-> "idle", ncclCommCounter_ |-> 0, key |-> "", skey |-> "",
             id |-> <<>>, cache |-> EmptyMap, order |-> <<>>]

\* Faulty variant: each rank offsets the sequence number by its rank.
StoreKeyFor_PerRank(r, counter, devicesKey) == to_string(counter + r)

\* Faulty variant: the rendezvous key is the DeviceKey.
StoreKeyFor_DeviceKey(r, counter, devicesKey) == devicesKey

\* broadcastUniqueNCCLID's store key on rank r for DeviceKey devicesKey:
\* the decimal string of the counter's value before the increment.
StoreKeyFor(r, counter, devicesKey) == to_string(counter)

\* The ids in use in the job.
JobUsedIds == {jobStore[k] : k \in DOMAIN jobStore}

\* Rank r calls getNCCLComm for devs: the cached group is returned, or a
\* creation starts: the counter is taken and advanced, rank 0 mints an id
\* and sets the key, the other ranks go on to store_->get.
RankGetNCCLComm(r, devs) ==
  /\ procs[r].pc = "idle"
  /\ LET devicesKey == getKeyFromDevices(devs)
         storeKey == StoreKeyFor(r, procs[r].ncclCommCounter_, devicesKey)
     IN  IF devicesKey \in DOMAIN procs[r].cache
         THEN UNCHANGED <<procs, jobStore>>
         ELSE IF r = 0
         THEN \E ncclID \in UniqueIds \ JobUsedIds :
                /\ jobStore' = Put(jobStore, storeKey, ncclID)
                /\ procs' = [procs EXCEPT
                               ![r].pc = "create",
                               ![r].ncclCommCounter_ = @ + 1,
                               ![r].key = devicesKey,
                               ![r].skey = storeKey,
                               ![r].id = ncclID]
         ELSE /\ procs' = [procs EXCEPT
                             ![r].pc = "get",
                             ![r].ncclCommCounter_ = @ + 1,
                             ![r].key = devicesKey,
                             ![r].skey = storeKey]
              /\ UNCHANGED jobStore
  /\ UNCHANGED <<pure, ncclOp, groupScopes, rank_,
                 mutex_, freeMutex, dtor, blockingWait_, store,
                 ownSets, ncclCommCounter_,
                 devNCCLCommMap_, ncclStreams_, ncclEvents_, ncclIdToCommMap_,
                 abortedComms_, usedDeviceIdxs_, comms, works, now, thr,
                 terminateWatchdog_, destroyed, wd, crashed, lastOp>>

\* store_->get(storeKey) returns on rank r: the key is set.
RankGet(r) ==
  /\ procs[r].pc = "get"
  /\ procs[r].skey \in DOMAIN jobStore
  /\ Len(jobStore[procs[r].skey]) = NCCL_UNIQUE_ID_BYTES
  /\ procs' = [procs EXCEPT ![r].pc = "create",
                            ![r].id = jobStore[procs[r].skey]]
  /\ UNCHANGED <<pure, ncclOp, groupScopes, jobStore, rank_,
                 mutex_, freeMutex, dtor,
                 blockingWait_, store, ownSets,
                 ncclCommCounter_, devNCCLCommMap_, ncclStreams_, ncclEvents_,
                 ncclIdToCommMap_, abortedComms_, usedDeviceIdxs_, comms,
                 works, now, thr, terminateWatchdog_, destroyed, wd, crashed,
                 lastOp>>

\* Rank q has joined the communicator of ncclID (it is inside, or past, the
\* grouped construction with that id).
Joined(q, ncclID) ==
  \/ procs[q].pc = "create" /\ procs[q].id = ncclID
  \/ \E k \in DOMAIN procs[q].cache : procs[q].cache[k] = ncclID

\* The grouped construction returns on rank r (the vendor library lets it
\* return when all size_ * devices.size() members have joined the id), and
\* the group is emplaced into the cache.
RankCreate(r) ==
  /\ procs[r].pc = "create"
  /\ \A q \in Ranks : Joined(q, procs[r].id)
  /\ procs' = [procs EXCEPT
                 ![r].pc = "idle",
                 ![r].cache = Emplace(@, procs[r].key, procs[r].id),
                 ![r].order = Append(@, procs[r].key)]
  /\ UNCHANGED <<pure, ncclOp, groupScopes, jobStore, rank_,
                 mutex_, freeMutex, dtor,
                 blockingWait_, store, ownSets,
                 ncclCommCounter_, devNCCLCommMap_, ncclStreams_, ncclEvents_,
                 ncclIdToCommMap_, abortedComms_, usedDeviceIdxs_, comms,
                 works, now, thr, terminateWatchdog_, destroyed, wd, crashed,
                 lastOp>>

(* ------------------------------- Init --------------------------------- *)

\* The state after ProcessGroupNCCL's constructor: NCCL_BLOCKING_WAIT has
\* decided blockingWait_, the counter is 0, the caches are empty.  Init is
\* that state with no pure function applied.
Constructed ==
  /\ rank_ \in Ranks
  /\ blockingWait_ \in BOOLEAN
  /\ store = EmptyMap
  /\ ownSets = {}
  /\ ncclCommCounter_ = 0
  /\ devNCCLCommMap_ = EmptyMap
  /\ ncclStreams_ = EmptyMap
  /\ ncclEvents_ = EmptyMap
  /\ ncclIdToCommMap_ = EmptyMap
  /\ abortedComms_ = {}
  /\ usedDeviceIdxs_ = {}
  /\ comms = <<>>
  /\ works = <<>>
  /\ now = 0
  /\ thr = [t \in Threads |-> Idle]
  /\ terminateWatchdog_ = FALSE
  /\ destroyed = FALSE
  /\ wd = WdIdle
  /\ crashed = FALSE
  /\ lastOp = NoOp
  /\ procs = [r \in Ranks |-> ProcInit]
  /\ jobStore = EmptyMap
  /\ ncclOp = ncclOpInit
  /\ groupScopes = 0
  /\ mutex_ = Free
  /\ freeMutex = {}
  /\ dtor = "none"

Init == Constructed /\ pure = NoCall

(* -------------------------- the pure functions ------------------------ *)

\* A pure function is applied to the arguments drawn initially: nothing of
\* the process group changes.
Apply(result) ==
  /\ ~pure.done
  /\ pure' = [pure EXCEPT !.done = TRUE, !.result = result]
  /\ UNCHANGED <<ncclOp, groupScopes, procs, jobStore, rank_,
                 mutex_, freeMutex, dtor, blockingWait_,
                 store, ownSets, ncclCommCounter_, devNCCLCommMap_,
                 ncclStreams_, ncclEvents_, ncclIdToCommMap_, abortedComms_,
                 usedDeviceIdxs_, comms, works, now, thr, terminateWatchdog_,
                 destroyed, wd, crashed, lastOp>>

\* size_ of the process group.
size_ == Cardinality(Ranks)

\* An int64_t value converted to int: the value modulo 2^IntBits, in two's
\* complement.
ToInt(v) == ((v + 2^(IntBits - 1)) % 2^IntBits) - 2^(IntBits - 1)

\* std::accumulate(begin, end, 0): the accumulator is an int, so every
\* partial sum is converted to int.
Accumulate(split_sizes) ==
  LET RECURSIVE Sum(_)
      Sum(n) == IF n = 0 THEN 0 ELSE ToInt(Sum(n - 1) + split_sizes[n])
  IN  Sum(Len(split_sizes))

\* checkSplitSizes returns (it throws otherwise).
checkSplitSizes(split_sizes, dim0, group_size) ==
  IF Len(split_sizes) = 0
  THEN dim0 % group_size = 0
  ELSE /\ Len(split_sizes) = group_size
       /\ Accumulate(split_sizes) = dim0

\* Split sizes and sizes of dimension 0 around the limits of int.
SplitVals == {0, 1, 2, 2^(IntBits - 1), 2^IntBits - 1, 2^IntBits}

Dim0Vals == {0, 1, 2, 3, 4, 2^(IntBits - 1)}

SplitLists == UNION {[1..n -> SplitVals] : n \in 0..(size_ + 1)}

InitSplit ==
  /\ Constructed
  /\ pure \in [fn : {"checkSplitSizes"}, split_sizes : SplitLists,
               dim0 : Dim0Vals, done : {FALSE}, result : {"none"}]

ApplyCheckSplitSizes ==
  /\ pure.fn = "checkSplitSizes"
  /\ Apply(IF checkSplitSizes(pure.split_sizes, pure.dim0, size_)
           THEN "ok" ELSE "invalid")

SpecSplit == InitSplit /\ [][ApplyCheckSplitSizes]_vars

\* The tensors alltoall_base is called with: size(0), the elements of one
\* row, and the scalar type; all pass check_gpu_tensors.
BaseTensors ==
  [dim0 : {1, 2}, row : {1, 2}, scalar_type : {"kFloat", "kDouble"}]

\* Tensor::numel.
numel(tensor) == tensor.dim0 * tensor.row

\* The split sizes alltoall_base is called with.
BaseSplitLists == UNION {[1..n -> {0, 1, 2}] : n \in 0..(size_ + 1)}

\* What a read beyond the end of a vector may give.
GarbageVals == {0, 1, 3}

\* The values the reads v[0] .. v[size_ - 1] of the alltoallv loop can give:
\* the entries, and anything where the vector has none (std::vector's
\* operator[] does not check the index).
VectorReads(v) ==
  {r \in [1..size_ -> Range(v) \cup GarbageVals] :
     \A i \in 1..size_ : i \in DOMAIN v => r[i] = v[i]}

\* alltoall_base up to the call of batchedp2p: the ways it can end, with the
\* send and receive lengths handed to batchedp2p and whether a split-size
\* vector was read beyond its end.
alltoall_base(outputTensor, inputTensor, outputSplitSizes, inputSplitSizes) ==
  LET Thrown == [status |-> "invalid", send_lengths |-> <<>>,
                 recv_lengths |-> <<>>, beyond |-> FALSE]
  IN
  IF Len(outputSplitSizes) = 0 /\ Len(inputSplitSizes) = 0
  THEN IF \/ numel(outputTensor) # numel(inputTensor)
          \/ outputTensor.scalar_type # inputTensor.scalar_type
          \/ outputTensor.dim0 % size_ # 0
       THEN {Thrown}
       ELSE LET len == ToInt(numel(inputTensor) \div size_)
            IN  {[status |-> "ok",
                  send_lengths |-> [i \in 1..size_ |-> len],
                  recv_lengths |-> [i \in 1..size_ |-> len],
                  beyond |-> FALSE]}
  ELSE IF \/ ~checkSplitSizes(inputSplitSizes, inputTensor.dim0, size_)
          \/ ~checkSplitSizes(outputSplitSizes, outputTensor.dim0, size_)
       THEN {Thrown}
       ELSE LET row_size == ToInt(numel(inputTensor) \div inputTensor.dim0)
            IN  {[status |-> "ok",
                  send_lengths |-> [i \in 1..size_ |-> ToInt(row_size * ins[i])],
                  recv_lengths |-> [i \in 1..size_ |-> ToInt(row_size * outs[i])],
                  beyond |-> \/ Len(inputSplitSizes) < size_
                             \/ Len(outputSplitSizes) < size_] :
                   ins \in VectorReads(inputSplitSizes),
                   outs \in VectorReads(outputSplitSizes)}

InitAllToAllBase ==
  /\ Constructed
  /\ pure \in [fn : {"alltoall_base"}, outputTensor : BaseTensors,
               inputTensor : BaseTensors, outputSplitSizes : BaseSplitLists,
               inputSplitSizes : BaseSplitLists, done : {FALSE},
               result : {[status |-> "none", send_lengths |-> <<>>,
                          recv_lengths |-> <<>>, beyond |-> FALSE]}]

ApplyAllToAllBase ==
  /\ pure.fn = "alltoall_base"
  /\ \E r \in alltoall_base(pure.outputTensor, pure.inputTensor,
                             pure.outputSplitSizes, pure.inputSplitSizes) :
       Apply(r)

SpecAllToAllBase == InitAllToAllBase /\ [][ApplyAllToAllBase]_vars

\* The characters of the values NCCL_BLOCKING_WAIT takes here.
EnvChars == {"0", "1", "2", " ", "+", "-", "a", "x"}

Digits == {"0", "1", "2"}

\* The decimal value of a digit character.
DigitVal(c) == CASE c = "0" -> 0 [] c = "1" -> 1 [] c = "2" -> 2

\* getenv's results: nullptr when the variable is unset, or a string of at
\* most MaxEnvLen characters.
Unset == [null |-> TRUE, str |-> <<>>]

EnvStr(str) == [null |-> FALSE, str |-> str]

EnvValues ==
  {Unset} \cup {EnvStr(str) : str \in UNION {[1..n -> EnvChars] : n \in 0..MaxEnvLen}}

\* str without its leading white space.
RECURSIVE SkipSpace(_)
SkipSpace(str) ==
  IF str # <<>> /\ str[1] = " " THEN SkipSpace(Tail(str)) ELSE str

\* The value of the longest prefix of digits of str, continuing from acc.
RECURSIVE ParseDigits(_, _)
ParseDigits(str, acc) ==
  IF str # <<>> /\ str[1] \in Digits
  THEN ParseDigits(Tail(str), 10 * acc + DigitVal(str[1]))
  ELSE acc

\* std::stoi(str): white space is skipped, a sign is taken, the longest
\* run of digits is converted and the rest of the string is ignored; with
\* no digit there it throws std::invalid_argument.
stoi(str) ==
  LET s1 == SkipSpace(str)
      signed == s1 # <<>> /\ s1[1] \in {"+", "-"}
      s2 == IF signed THEN Tail(s1) ELSE s1
  IN  IF s2 = <<>> \/ s2[1] \notin Digits THEN [throws |-> TRUE, val |-> 0]
      ELSE IF signed /\ s1[1] = "-"
      THEN [throws |-> FALSE, val |-> 0 - ParseDigits(s2, 0)]
      ELSE [throws |-> FALSE, val |-> ParseDigits(s2, 0)]

\* The constructor's reading of NCCL_BLOCKING_WAIT: blockingWait_ after
\* it ("true", "false"), or "error" when it throws.
ParseBlockingWait(blockingWait) ==
  IF blockingWait.null THEN "false"
  ELSE LET parsed == stoi(blockingWait.str)
       IN  IF parsed.throws THEN "error"
           ELSE IF parsed.val = 1 THEN "true"
           ELSE IF parsed.val # 0 THEN "error"
           ELSE "false"

InitEnv ==
  /\ Constructed
  /\ pure \in [fn : {"ProcessGroupNCCL"}, blockingWait : EnvValues,
               done : {FALSE}, result : {"none"}]

ApplyParseBlockingWait ==
  /\ pure.fn = "ProcessGroupNCCL"
  /\ Apply(ParseBlockingWait(pure.blockingWait))

SpecEnv == InitEnv /\ [][ApplyParseBlockingWait]_vars

\* A tensor as flatten_for_scatter_gather's alias checks read it.
View(storage, storage_offset) ==
  [storage |-> storage, storage_offset |-> storage_offset, numel |-> 1]

\* Lists of n tensors for device i: contiguous views into one storage; the
\* same with the last tensor in a storage of its own; the same with the
\* last tensor one element further.
ListKinds(i, n) ==
  {[j \in 1..n |-> View(i, j - 1)],
   [j \in 1..n |-> IF j = n THEN View(100 + i, j - 1) ELSE View(i, j - 1)],
   [j \in 1..n |-> IF j = n THEN View(i, j) ELSE View(i, j - 1)]}

\* The other tensor of device i: in a storage of its own, in the list's
\* storage at the rank's slot, in the list's storage elsewhere.
OtherKinds(i, rank) ==
  {View(200 + i, 0), View(i, rank), View(i, rank + 1)}

\* The arguments of flatten_for_scatter_gather for n devices.
FlattenArgs(n) ==
  [fn : {"flatten_for_scatter_gather"},
   tensor_lists : {l \in [1..n -> UNION {ListKinds(i, size_ * n) : i \in 1..n}] :
                     \A i \in 1..n : l[i] \in ListKinds(i, size_ * n)},
   other : {o \in [1..n -> UNION {OtherKinds(i, rank_) : i \in 1..n}] :
              \A i \in 1..n : o[i] \in OtherKinds(i, rank_)},
   no_copy : BOOLEAN, done : {FALSE}, result : {"none"}]

\* The no-copy checks of one device: every tensor of the list is a view
\* into the first one's storage at its slot.
ListIsFlat(list) ==
  \A j \in DOMAIN list :
    /\ list[j].storage = list[1].storage
    /\ list[j].storage_offset = list[1].storage_offset + (j - 1) * list[1].numel

\* The other tensor does not share the list's storage, or sits at the
\* rank's slot.
OtherIsAligned(o, list, rank) ==
  ~(/\ o.storage = list[1].storage
    /\ o.storage_offset # list[1].storage_offset + rank * list[1].numel)

\* flatten_for_scatter_gather from device i on: no_copy is the by-value
\* parameter, cleared by the first device whose checks fail and not set
\* again.  "view" is the tensor set_ on the list's storage, "fresh" is
\* newLikeFlat's.
RECURSIVE FlattenFrom(_, _, _, _, _)
FlattenFrom(i, tensor_lists, other, rank, no_copy) ==
  IF i > Len(tensor_lists) THEN <<>>
  ELSE LET nc == /\ no_copy
                 /\ ListIsFlat(tensor_lists[i])
                 /\ OtherIsAligned(other[i], tensor_lists[i], rank)
       IN  <<IF nc THEN "view" ELSE "fresh">>
             \o FlattenFrom(i + 1, tensor_lists, other, rank, nc)

flatten_for_scatter_gather(tensor_lists, other, world_size, rank, no_copy) ==
  IF \/ Len(tensor_lists) # Len(other)
     \/ \E i \in DOMAIN tensor_lists :
          Len(tensor_lists[i]) # world_size * Len(tensor_lists)
  THEN "throw"
  ELSE FlattenFrom(1, tensor_lists, other, rank, no_copy)

InitFlatten ==
  /\ Constructed
  /\ pure \in UNION {FlattenArgs(n) : n \in 1..NumGPUs}

ApplyFlatten ==
  /\ pure.fn = "flatten_for_scatter_gather"
  /\ Apply(flatten_for_scatter_gather(pure.tensor_lists, pure.other, size_,
                                      rank_, pure.no_copy))

SpecFlatten == InitFlatten /\ [][ApplyFlatten]_vars

\* Byte values on both sides of the one-digit limit of std::hex.
HexBytes == {0, 1, 10, 16, 17, 171, 255}

\* The ncclUniqueIds made of those bytes.
HexUniqueIds == [1..NCCL_UNIQUE_ID_BYTES -> HexBytes]

InitHex ==
  /\ Constructed
  /\ pure \in [fn : {"buildNcclUniqueIdStr"}, a : HexUniqueIds,
               b : HexUniqueIds, done : {FALSE}, result : {"none"}]

\* buildNcclUniqueIdStr is applied to the two ids drawn.
ApplyBuildNcclUniqueIdStr ==
  /\ pure.fn = "buildNcclUniqueIdStr"
  /\ Apply(<<buildNcclUniqueIdStr(pure.a), buildNcclUniqueIdStr(pure.b)>>)

SpecHex == InitHex /\ [][ApplyBuildNcclUniqueIdStr]_vars

(* ---------------------------- the watchdog ---------------------------- *)

\* The loop condition while (!terminateWatchdog_.load()): the loop is left
\* (and the thread function returns), or a new iteration starts with empty
\* abortedCommIds and allCommIds and takes mutex_ for its scan.
LoopTest ==
  /\ terminateWatchdog_ \/ mutex_ = Free
  /\ wd' = IF terminateWatchdog_ THEN [WdIdle EXCEPT !.pc = "done"]
           ELSE [WdIdle EXCEPT !.pc = "scan"]
  /\ mutex_' = IF terminateWatchdog_ THEN mutex_ ELSE "watchdog"

WatchdogTop ==
  /\ ~crashed
  /\ wd.pc = "top"
  /\ LoopTest
  /\ lastOp' = NoOp
  /\ UNCHANGED <<pure, ncclOp, groupScopes, procs, jobStore, rank_,
                 freeMutex, dtor,
                 blockingWait_, store, ownSets, ncclCommCounter_,
                 devNCCLCommMap_, ncclStreams_, ncclEvents_, ncclIdToCommMap_,
                 abortedComms_, usedDeviceIdxs_, comms, works, now, thr,
                 terminateWatchdog_, destroyed, crashed>>

\* The DeviceKeys whose cached group reports an asynchronous error.
ErrorKeys ==
  {k \in DOMAIN devNCCLCommMap_ :
     checkForNCCLErrors(devNCCLCommMap_[k]) # NoErr}

\* Faulty variant: the scan aborts erroring groups without blocking wait too.
ScanAborts_Always == TRUE

\* Whether the scan aborts the groups that report an error.
ScanAborts == blockingWait_

\* Faulty variant: only the group's first communicator is aborted.
ScanAbortSet_FirstOnly(g) == {g[1]}

\* The communicators the scan aborts in a group that reports an error.
ScanAbortSet(g) == Range(g)

\* The scan under mutex_: collect the hex id of every cached communicator;
\* abort the groups that report an error (blocking wait only) and collect
\* their hex ids.  mutex_ is released at the end of the block.
WatchdogScan ==
  /\ ~crashed
  /\ wd.pc = "scan"
  /\ mutex_' = Free
  /\ LET all == {buildNcclUniqueIdStr(comms[h].ncclId) :
                   h \in UNION {Range(devNCCLCommMap_[k]) :
                                  k \in DOMAIN devNCCLCommMap_}}
         hit == IF ScanAborts THEN ErrorKeys ELSE {}
     IN  /\ comms' = AbortAll(comms,
                       UNION {ScanAbortSet(devNCCLCommMap_[k]) : k \in hit})
         /\ wd' = [wd EXCEPT !.pc = "publish",
                     !.allCommIds = all,
                     !.abortedCommIds =
                        {buildNcclUniqueIdStr(comms[h].ncclId) :
                           h \in UNION {Range(devNCCLCommMap_[k]) : k \in hit}},
                     !.errKeys = ErrorKeys]
  /\ lastOp' = NoOp
  /\ UNCHANGED <<pure, ncclOp, groupScopes, procs, jobStore, rank_,
                 freeMutex, dtor,
                 blockingWait_, store, ownSets, ncclCommCounter_,
                 devNCCLCommMap_, ncclStreams_, ncclEvents_, ncclIdToCommMap_,
                 abortedComms_, usedDeviceIdxs_, works, now, thr,
                 terminateWatchdog_, destroyed, crashed>>

\* The store keys the watchdog sets for the ids it aborted in the scan.
PublishKeys(ids) == {getNcclAbortedCommStoreKey(x) : x \in ids}

\* if (blockingWait_): record the aborted ids locally and in the store.
WatchdogPublish ==
  /\ ~crashed
  /\ wd.pc = "publish"
  /\ IF blockingWait_
     THEN /\ abortedComms_' = abortedComms_ \cup wd.abortedCommIds
          /\ store' = SetAll(store, PublishKeys(wd.abortedCommIds))
          /\ ownSets' = ownSets \cup PublishKeys(wd.abortedCommIds)
          /\ wd' = [wd EXCEPT !.pc = "wait", !.todo = wd.allCommIds]
     ELSE /\ wd' = [wd EXCEPT !.pc = "sleep"]
          /\ UNCHANGED <<abortedComms_, store, ownSets>>
  /\ lastOp' = NoOp
  /\ UNCHANGED <<pure, ncclOp, groupScopes, procs, jobStore, rank_,
                 mutex_, freeMutex, dtor,
                 blockingWait_, ncclCommCounter_, devNCCLCommMap_,
                 ncclStreams_, ncclEvents_, ncclIdToCommMap_, usedDeviceIdxs_,
                 comms, works, now, thr, terminateWatchdog_, destroyed,
                 crashed>>

\* Faulty variant: the id is recorded but its communicators are not aborted.
StoreAbortSet_None(commId) == {}

\* The communicators aborted for an id found in the store.
StoreAbortSet(commId) == Range(ncclIdToCommMap_[commId])

\* One turn of the loop over allCommIds: for an id not aborted locally,
\* store_->wait on its key; when the key is there, take mutex_, abort the
\* group the reverse index gives, record the id and release mutex_.  A wait that times
\* out, or a failed find, throws into the catch and the loop goes on.
WatchdogWait(commId) ==
  /\ ~crashed
  /\ wd.pc = "wait"
  /\ commId \in wd.todo
  /\ mutex_ = Free
  /\ wd' = [wd EXCEPT !.todo = wd.todo \ {commId}]
  /\ IF /\ commId \notin abortedComms_
        /\ getNcclAbortedCommStoreKey(commId) \in DOMAIN store
        /\ commId \in DOMAIN ncclIdToCommMap_
     THEN /\ comms' = AbortAll(comms, StoreAbortSet(commId))
          /\ abortedComms_' = abortedComms_ \cup {commId}
     ELSE UNCHANGED <<comms, abortedComms_>>
  /\ lastOp' = NoOp
  /\ UNCHANGED <<pure, ncclOp, groupScopes, procs, jobStore, rank_,
                 mutex_, freeMutex, dtor,
                 blockingWait_, store, ownSets, ncclCommCounter_,
                 devNCCLCommMap_, ncclStreams_, ncclEvents_, ncclIdToCommMap_,
                 usedDeviceIdxs_, works, now, thr, terminateWatchdog_,
                 destroyed, crashed>>

\* The loop over allCommIds is over.
WatchdogWaitDone ==
  /\ ~crashed
  /\ wd.pc = "wait"
  /\ wd.todo = {}
  /\ wd' = [wd EXCEPT !.pc = "sleep"]
  /\ lastOp' = NoOp
  /\ UNCHANGED <<pure, ncclOp, groupScopes, procs, jobStore, rank_,
                 mutex_, freeMutex, dtor,
                 blockingWait_, store, ownSets, ncclCommCounter_,
                 devNCCLCommMap_, ncclStreams_, ncclEvents_, ncclIdToCommMap_,
                 abortedComms_, usedDeviceIdxs_, comms, works, now, thr,
                 terminateWatchdog_, destroyed, crashed>>

\* watchdogCVMutex_ is taken and watchdogCV_.wait_for tests its predicate:
\* when termination was requested it returns at once and the loop
\* condition ends the loop; otherwise the thread starts to wait on the
\* condition variable.
WatchdogSleep ==
  /\ ~crashed
  /\ wd.pc = "sleep"
  /\ wd' = IF terminateWatchdog_ THEN [WdIdle EXCEPT !.pc = "done"]
           ELSE [wd EXCEPT !.pc = "cv_wait"]
  /\ lastOp' = NoOp
  /\ UNCHANGED <<pure, ncclOp, groupScopes, procs, jobStore, rank_,
                 mutex_, freeMutex, dtor,
                 blockingWait_, store, ownSets, ncclCommCounter_,
                 devNCCLCommMap_, ncclStreams_, ncclEvents_, ncclIdToCommMap_,
                 abortedComms_, usedDeviceIdxs_, comms, works, now, thr,
                 terminateWatchdog_, destroyed, crashed>>

\* Faulty variant: a wait without timeout, ended by a notification only.
WaitForReturns_NotifiedOnly == wd.notified /\ terminateWatchdog_

\* wait_for returns: kWatchdogThreadSleepMillis have passed, or the thread
\* was notified and the predicate holds.
WaitForReturns == TRUE

\* The wait on the condition variable ends and the loop condition is
\* tested again.
WatchdogWake ==
  /\ ~crashed
  /\ wd.pc = "cv_wait"
  /\ WaitForReturns
  /\ LoopTest
  /\ lastOp' = NoOp
  /\ UNCHANGED <<pure, ncclOp, groupScopes, procs, jobStore, rank_,
                 freeMutex, dtor,
                 blockingWait_, store, ownSets, ncclCommCounter_,
                 devNCCLCommMap_, ncclStreams_, ncclEvents_, ncclIdToCommMap_,
                 abortedComms_, usedDeviceIdxs_, comms, works, now, thr,
                 terminateWatchdog_, destroyed, crashed>>

Watchdog ==
  \/ WatchdogTop
  \/ WatchdogScan
  \/ WatchdogPublish
  \/ \E commId \in wd.todo : WatchdogWait(commId)
  \/ WatchdogWaitDone
  \/ WatchdogSleep
  \/ WatchdogWake

\* Faulty variant: no try around the handling of one id's store wait.
CaughtAt_OuterOnly(where) == "done"

\* Where the watchdog is after an exception thrown at a place of the loop:
\* what is thrown while one id's store wait is handled is caught by the try
\* around it and the loop over allCommIds goes on; everything else leaves
\* the loop and is caught in ncclCommWatchdog, which logs it and returns.
CaughtAt(where) == IF where = "wait" THEN "wait" ELSE "done"

\* The watchdog has caught and logged an exception thrown at where.
WatchdogLogs(where) ==
  lastOp' = [op |-> "watchdog", w |-> 0, res |-> where, before |-> <<>>]

\* The communicators of the cached groups that report an error.
ErrorGroupComms == UNION {Range(devNCCLCommMap_[k]) : k \in ErrorKeys}

\* The scan throws under mutex_ (an error query or an abort fails): some
\* of the erroring groups' communicators may have been aborted; the
\* lock_guard releases mutex_ on the way out.
WatchdogScanFails ==
  /\ ~crashed
  /\ wd.pc = "scan"
  /\ devNCCLCommMap_ # EmptyMap
  /\ \E hs \in SUBSET (IF ScanAborts THEN ErrorGroupComms ELSE {}) :
       comms' = AbortAll(comms, hs)
  /\ mutex_' = Free
  /\ wd' = [WdIdle EXCEPT !.pc = CaughtAt("scan")]
  /\ WatchdogLogs("scan")
  /\ UNCHANGED <<pure, ncclOp, groupScopes, procs, jobStore, rank_,
                 freeMutex, dtor,
                 blockingWait_, store, ownSets, ncclCommCounter_,
                 devNCCLCommMap_, ncclStreams_, ncclEvents_, ncclIdToCommMap_,
                 abortedComms_, usedDeviceIdxs_, works, now, thr,
                 terminateWatchdog_, destroyed, crashed>>

\* store_->set throws for the id failed, after the ids in before were
\* recorded and set; failed is in the locally-aborted set already.
WatchdogPublishFails(before, failed) ==
  /\ ~crashed
  /\ wd.pc = "publish"
  /\ blockingWait_
  /\ failed \in wd.abortedCommIds
  /\ before \subseteq wd.abortedCommIds \ {failed}
  /\ abortedComms_' = abortedComms_ \cup before \cup {failed}
  /\ store' = SetAll(store, PublishKeys(before))
  /\ ownSets' = ownSets \cup PublishKeys(before)
  /\ wd' = [WdIdle EXCEPT !.pc = CaughtAt("publish")]
  /\ WatchdogLogs("publish")
  /\ UNCHANGED <<pure, ncclOp, groupScopes, procs, jobStore, rank_,
                 mutex_, freeMutex, dtor,
                 blockingWait_, ncclCommCounter_, devNCCLCommMap_,
                 ncclStreams_, ncclEvents_, ncclIdToCommMap_, usedDeviceIdxs_,
                 comms, works, now, thr, terminateWatchdog_, destroyed,
                 crashed>>

\* The handling of one id's store wait throws something else than the
\* wait's timeout: the store fails, or the key is there and an abort
\* fails after the communicators in hs were aborted.  The id is not
\* recorded.
WatchdogWaitFails(commId, hs) ==
  /\ ~crashed
  /\ wd.pc = "wait"
  /\ commId \in wd.todo \ abortedComms_
  /\ mutex_ = Free
  /\ IF /\ getNcclAbortedCommStoreKey(commId) \in DOMAIN store
        /\ commId \in DOMAIN ncclIdToCommMap_
     THEN hs \in SUBSET StoreAbortSet(commId) \ {StoreAbortSet(commId)}
     ELSE hs = {}
  /\ comms' = AbortAll(comms, hs)
  /\ wd' = [wd EXCEPT !.todo = wd.todo \ {commId}, !.pc = CaughtAt("wait")]
  /\ WatchdogLogs("wait")
  /\ UNCHANGED <<pure, ncclOp, groupScopes, procs, jobStore, rank_,
                 mutex_, freeMutex, dtor,
                 blockingWait_, store, ownSets, ncclCommCounter_,
                 devNCCLCommMap_, ncclStreams_, ncclEvents_, ncclIdToCommMap_,
                 abortedComms_, usedDeviceIdxs_, works, now, thr,
                 terminateWatchdog_, destroyed, crashed>>

\* A store call, a vendor call or an assertion of the loop fails.
WatchdogFails ==
  \/ WatchdogScanFails
  \/ \E failed \in wd.abortedCommIds :
       \E before \in SUBSET wd.abortedCommIds :
         WatchdogPublishFails(before, failed)
  \/ \E commId \in wd.todo : \E hs \in SUBSET DOMAIN comms :
       WatchdogWaitFails(commId, hs)

\* ~ProcessGroupNCCL: the termination flag is stored (the notify and the
\* join follow).  No caller is inside the process group then.
Destroy ==
  /\ ~crashed /\ ~destroyed
  /\ \A t \in Threads : thr[t].op \notin {"collective", "p2p"}
  /\ terminateWatchdog_' = TRUE
  /\ destroyed' = TRUE
  /\ dtor' = "notify"
  /\ lastOp' = NoOp
  /\ UNCHANGED <<pure, ncclOp, groupScopes, procs, jobStore, rank_,
                 mutex_, freeMutex,
                 blockingWait_, store, ownSets, ncclCommCounter_,
                 devNCCLCommMap_, ncclStreams_, ncclEvents_, ncclIdToCommMap_,
                 abortedComms_, usedDeviceIdxs_, comms, works, now, thr, wd,
                 crashed>>

\* watchdogCV_.notify_one(): a thread blocked on the condition variable is
\* notified; when none is blocked the notification is lost.  The flag is
\* not stored under watchdogCVMutex_, so a watchdog that has tested the
\* predicate may not be blocked yet and then misses the notification.
DestroyNotify ==
  /\ ~crashed
  /\ dtor = "notify"
  /\ dtor' = "join"
  /\ \/ wd' = wd
     \/ wd.pc = "cv_wait" /\ wd' = [wd EXCEPT !.notified = TRUE]
  /\ lastOp' = NoOp
  /\ UNCHANGED <<pure, ncclOp, groupScopes, procs, jobStore, rank_,
                 mutex_, freeMutex,
                 blockingWait_, store, ownSets, ncclCommCounter_,
                 devNCCLCommMap_, ncclStreams_, ncclEvents_, ncclIdToCommMap_,
                 abortedComms_, usedDeviceIdxs_, comms, works, now, thr,
                 terminateWatchdog_, destroyed, crashed>>

\* ncclCommWatchdogThread_.join() returns: the thread function has returned.
DestroyJoin ==
  /\ ~crashed
  /\ dtor = "join"
  /\ wd.pc = "done"
  /\ dtor' = "done"
  /\ lastOp' = NoOp
  /\ UNCHANGED <<pure, ncclOp, groupScopes, procs, jobStore, rank_,
                 mutex_, freeMutex,
                 blockingWait_, store, ownSets, ncclCommCounter_,
                 devNCCLCommMap_, ncclStreams_, ncclEvents_, ncclIdToCommMap_,
                 abortedComms_, usedDeviceIdxs_, comms, works, now, thr,
                 terminateWatchdog_, destroyed, wd, crashed>>

(* --------------------------- the environment -------------------------- *)

\* The steady clock advances (it is started with the first Work).
Tick ==
  /\ ~crashed
  /\ works # <<>>
  /\ now < MaxTime
  /\ now' = now + 1
  /\ lastOp' = NoOp
  /\ UNCHANGED <<pure, ncclOp, groupScopes, procs, jobStore, rank_,
                 mutex_, freeMutex, dtor,
                 blockingWait_, store, ownSets, ncclCommCounter_,
                 devNCCLCommMap_, ncclStreams_, ncclEvents_, ncclIdToCommMap_,
                 abortedComms_, usedDeviceIdxs_, comms, works, thr,
                 terminateWatchdog_, destroyed, wd, crashed>>

\* The device reaches completion event i of Work w.
EventReady(w, i) ==
  /\ ~crashed
  /\ w \in DOMAIN works
  /\ i \in DOMAIN works[w].cudaEvents_
  /\ ~works[w].cudaEvents_[i]
  /\ works' = [works EXCEPT ![w].cudaEvents_[i] = TRUE]
  /\ lastOp' = NoOp
  /\ UNCHANGED <<pure, ncclOp, groupScopes, procs, jobStore, rank_,
                 mutex_, freeMutex, dtor,
                 blockingWait_, store, ownSets, ncclCommCounter_,
                 devNCCLCommMap_, ncclStreams_, ncclEvents_, ncclIdToCommMap_,
                 abortedComms_, usedDeviceIdxs_, comms, now, thr,
                 terminateWatchdog_, destroyed, wd, crashed>>

\* Communicator h starts reporting an asynchronous error (it keeps it).
CommAsyncError(h) ==
  /\ ~crashed
  /\ h \in DOMAIN comms
  /\ ~comms[h].asyncErr
  /\ comms' = [comms EXCEPT ![h].asyncErr = TRUE]
  /\ lastOp' = NoOp
  /\ UNCHANGED <<pure, ncclOp, groupScopes, procs, jobStore, rank_,
                 mutex_, freeMutex, dtor,
                 blockingWait_, store, ownSets, ncclCommCounter_,
                 devNCCLCommMap_, ncclStreams_, ncclEvents_, ncclIdToCommMap_,
                 abortedComms_, usedDeviceIdxs_, works, now, thr,
                 terminateWatchdog_, destroyed, wd, crashed>>

\* Another rank publishes the abort marker of a communicator id.
PeerAbortMarker(ncclID) ==
  /\ ~crashed
  /\ ncclID \in UsedIds
  /\ getNcclAbortedCommStoreKey(buildNcclUniqueIdStr(ncclID)) \notin DOMAIN store
  /\ store' = SetAll(store,
                {getNcclAbortedCommStoreKey(buildNcclUniqueIdStr(ncclID))})
  /\ lastOp' = NoOp
  /\ UNCHANGED <<pure, ncclOp, groupScopes, procs, jobStore, rank_,
                 mutex_, freeMutex, dtor,
                 blockingWait_, ownSets, ncclCommCounter_,
                 devNCCLCommMap_, ncclStreams_, ncclEvents_, ncclIdToCommMap_,
                 abortedComms_, usedDeviceIdxs_, comms, works, now, thr,
                 terminateWatchdog_, destroyed, wd, crashed>>

\* The rendezvous keys set so far.
RendezvousKeys == {k \in DOMAIN store : store[k] # <<>>}

\* Rank 0, when it is another process, performs its next creation: it sets
\* the next rendezvous key to a fresh id.
PeerRendezvous(ncclID, maxCreations) ==
  /\ ~crashed
  /\ rank_ # 0
  /\ Cardinality(RendezvousKeys) < maxCreations
  /\ ncclID \in UniqueIds \ UsedIds
  /\ store' = Put(store, to_string(Cardinality(RendezvousKeys)), ncclID)
  /\ lastOp' = NoOp
  /\ UNCHANGED <<pure, ncclOp, groupScopes, procs, jobStore, rank_,
                 mutex_, freeMutex, dtor,
                 blockingWait_, ownSets, ncclCommCounter_,
                 devNCCLCommMap_, ncclStreams_, ncclEvents_, ncclIdToCommMap_,
                 abortedComms_, usedDeviceIdxs_, comms, works, now, thr,
                 terminateWatchdog_, destroyed, wd, crashed>>

\* The device, the vendor library and the clock.
Device ==
  \/ Tick
  \/ \E w \in DOMAIN works : \E i \in DOMAIN works[w].cudaEvents_ :
       EventReady(w, i)
  \/ \E h \in DOMAIN comms : CommAsyncError(h)

(* ------------------------- the specifications ------------------------- *)

\* The steps of caller thread t inside the collective entry points.
Collectives(t, maxWorks, maxCreations, pool) ==
  \/ \E devs \in DeviceLists :
       CallCollective(t, devs, maxWorks, maxCreations)
  \/ CallBarrier(t, maxWorks, maxCreations)
  \/ CallAllToAll(t, 0, maxWorks, maxCreations)
  \/ GetNCCLCommCheck(t)
  \/ GetNCCLCommBroadcast(t, pool)
  \/ GetNCCLCommGet(t)
  \/ GetNCCLCommCreate(t)
  \/ GetNCCLCommCreateFails(t)
  \/ GetNCCLCommPublish(t)
  \/ Submit(t)

\* The steps of caller thread t on the Works it holds.
WorkOps(t) ==
  \/ \E w \in DOMAIN works : CallIsSuccess(t, w)
  \/ \E w \in DOMAIN works : CallIsCompleted(t, w)
  \/ \E w \in DOMAIN works : CallSynchronize(t, w)
  \/ SyncDeviceSynchronize(t)
  \/ CheckAndSetExceptionRead(t)
  \/ CheckAndSetExceptionWrite(t)
  \/ IsCompletedReturn(t)
  \/ SyncLoopCond(t)
  \/ SyncTimeout(t)
  \/ SyncTimeoutNullStore(t)
  \/ SyncLoopThrow(t)
  \/ SyncFinal(t)

\* The ids the vendor library mints in Spec and SpecMT.
MintedIds == {<<1, 17>>}

\* One caller thread, the watchdog, the device and the other ranks.
Next ==
  \/ Collectives(1, MaxWorks, MaxCreations, MintedIds)
  \/ WorkOps(1)
  \/ Watchdog
  \/ Device
  \/ \E ncclID \in MintedIds : PeerAbortMarker(ncclID)
  \/ \E ncclID \in MintedIds : PeerRendezvous(ncclID, MaxCreations)

Spec == Init /\ [][Next]_vars

\* Two caller threads, the device and the other ranks.
NextMT ==
  \/ \E t \in Threads : Collectives(t, MaxWorks, MaxCreations, MintedIds)
  \/ \E t \in Threads : WorkOps(t)
  \/ Device
  \/ \E ncclID \in MintedIds : PeerRendezvous(ncclID, MaxCreations)

SpecMT == Init /\ [][NextMT]_vars

\* The callers' collective calls and rank 0's rendezvous writes alone, with
\* every ncclUniqueId value mintable: the communicator cache.
NextCache ==
  \/ Collectives(1, MaxCalls, MaxRendezvous, UniqueIds)
  \/ \E ncclID \in UniqueIds : PeerRendezvous(ncclID, MaxRendezvous)

SpecCache == Init /\ [][NextCache]_vars

\* The callers' collective calls with failing vendor calls in the grouped
\* submission.
NextGroup ==
  \/ Collectives(1, MaxCalls, MaxRendezvous, MintedIds)
  \/ SubmitVendorFails(1)
  \/ \E ncclID \in MintedIds : PeerRendezvous(ncclID, MaxRendezvous)

SpecGroup == Init /\ [][NextGroup]_vars

\* Two caller threads whose collective calls may be inside getNCCLComm at
\* the same time, and rank 0's rendezvous writes.
NextRace ==
  \/ \E t \in Threads :
       Collectives(t, MaxRendezvous, MaxRendezvous, UniqueIds)
  \/ \E ncclID \in UniqueIds : PeerRendezvous(ncclID, MaxRendezvous)

SpecRace == Init /\ [][NextRace]_vars

\* The steps of caller thread t inside synchronize() and wait(), short of
\* the device synchronization of a barrier.
SyncOps(t) ==
  \/ \E w \in DOMAIN works : CallSynchronize(t, w)
  \/ CheckAndSetExceptionRead(t)
  \/ CheckAndSetExceptionWrite(t)
  \/ SyncLoopCond(t)
  \/ SyncTimeout(t)
  \/ SyncTimeoutNullStore(t)
  \/ SyncLoopThrow(t)
  \/ SyncFinal(t)

\* One caller thread issuing several collectives and waiting on them, the
\* watchdog, erroring communicators, the clock and the other ranks: the
\* cache across aborts.  The device completes nothing here, so a barrier's
\* synchronize() stays in cudaDeviceSynchronize.
NextReuse ==
  \/ Collectives(1, MaxReuseWorks, MaxCreations, MintedIds)
  \/ SyncOps(1)
  \/ Watchdog
  \/ Tick
  \/ \E h \in DOMAIN comms : CommAsyncError(h)
  \/ \E ncclID \in MintedIds : PeerAbortMarker(ncclID)
  \/ \E ncclID \in MintedIds : PeerRendezvous(ncclID, MaxCreations)

SpecReuse == Init /\ [][NextReuse]_vars

\* One caller thread calling the entry points with all kinds of arguments,
\* and rank 0's rendezvous writes.
NextArgs ==
  \/ \E tensors \in TensorLists : \E reduceOp \in ReduceOps :
       CallAllreduce(1, tensors, reduceOp, MaxReuseWorks, MaxCreations)
  \/ \E inputTensors \in TensorLists :
       CallAllToAllList(1, inputTensors, MaxReuseWorks, MaxCreations)
  \/ \E name \in UnsupportedEntryPoints :
       \E tensors \in {l \in TensorLists : Len(l) <= 1} :
         CallUnsupported(1, name, tensors)
  \/ \E w \in DOMAIN works : CallAbort(1, w)
  \/ Collectives(1, MaxReuseWorks, MaxCreations, MintedIds)
  \/ \E ncclID \in MintedIds : PeerRendezvous(ncclID, MaxCreations)

SpecArgs == Init /\ [][NextArgs]_vars

\* Every rank of the job in getNCCLComm, one caller thread each.
NextJob ==
  \/ \E r \in Ranks : \E devs \in JobDeviceLists : RankGetNCCLComm(r, devs)
  \/ \E r \in Ranks : RankGet(r)
  \/ \E r \in Ranks : RankCreate(r)

SpecJob == Init /\ [][NextJob]_vars

\* A store_->get whose key is set returns, and a grouped construction all
\* of whose members have joined returns.
FairJob ==
  /\ SpecJob
  /\ \A r \in Ranks : WF_vars(RankGet(r)) /\ WF_vars(RankCreate(r))

\* One caller thread, the watchdog with failing store and vendor calls,
\* erroring communicators and the other ranks.
NextWatchdogFails ==
  \/ Collectives(1, MaxWorks, MaxCreations, MintedIds)
  \/ Watchdog
  \/ WatchdogFails
  \/ \E h \in DOMAIN comms : CommAsyncError(h)
  \/ \E ncclID \in MintedIds : PeerAbortMarker(ncclID)
  \/ \E ncclID \in MintedIds : PeerRendezvous(ncclID, MaxCreations)

SpecWatchdogFails == Init /\ [][NextWatchdogFails]_vars

\* The process group is used and then destroyed while the watchdog runs.
NextShutdown ==
  \/ Collectives(1, MaxWorks, MaxCreations, MintedIds)
  \/ Watchdog
  \/ Destroy
  \/ DestroyNotify
  \/ DestroyJoin
  \/ \E h \in DOMAIN comms : CommAsyncError(h)
  \/ \E ncclID \in MintedIds : PeerAbortMarker(ncclID)
  \/ \E ncclID \in MintedIds : PeerRendezvous(ncclID, MaxCreations)

SpecShutdown == Init /\ [][NextShutdown]_vars

\* The watchdog thread and the destructing thread keep being scheduled.
FairShutdown ==
  /\ SpecShutdown
  /\ WF_vars(Watchdog)
  /\ WF_vars(DestroyNotify)
  /\ WF_vars(DestroyJoin)

\* The caller thread keeps being scheduled and time advances.
FairSync == Spec /\ WF_vars(WorkOps(1)) /\ WF_vars(Tick)

\* The watchdog is a thread of its own: it keeps being scheduled, and each
\* of its waits is bounded (kWaitForAbortCommStoreKey,
\* kWatchdogThreadSleepMillis).
FairSpec == Spec /\ WF_vars(Watchdog)

(* ---------------------------- the properties --------------------------- *)

\* The hex strings of the ncclUniqueId values, and their abort-store keys.
HexIds == {buildNcclUniqueIdStr(id) : id \in UniqueIds}

AbortMarkerKeys == {getNcclAbortedCommStoreKey(x) : x \in HexIds}

\* The last step ended a synchronize() in its timeout branch.
TimeoutBranchEnded ==
  /\ lastOp.op = "synchronize"
  /\ lastOp.res \in {"timeout", "crash"}

\* C1: in blocking-wait mode, when synchronize() takes its timeout branch,
\* every communicator of the Work is aborted, the store holds the key
\* NCCLABORTEDCOMM:<hex> of each of them, and the call fails with the
\* timeout error.
C1_TimeoutAbortsPublishesAndThrows ==
  TimeoutBranchEnded =>
    /\ lastOp.res = "timeout"
    /\ \A h \in Range(works[lastOp.w].ncclComms_) : comms[h].aborted
    /\ WorkAbortKeys(lastOp.w) \subseteq DOMAIN store

\* C2: every Work a public entry point returned carries the process
\* group's communicators for its devices, its timeout, its blocking-wait
\* flag and its store reference.
C2_EveryWorkCarriesCommsTimeoutFlagStore ==
  \A w \in DOMAIN works :
    /\ works[w].ncclComms_ =
         devNCCLCommMap_[getKeyFromDevices(works[w].devices)]
    /\ works[w].opTimeout_ = OpTimeoutTicks
    /\ works[w].blockingWait_ = blockingWait_
    /\ works[w].store_

\* The hex id x is that of a group in the DeviceKey cache.
Cached(x) ==
  \E k \in DOMAIN devNCCLCommMap_ : GroupIdStr(devNCCLCommMap_[k]) = x

\* The group the reverse index gives for x has been aborted and x is in
\* the locally-aborted set.
AbortedLocally(x) ==
  /\ x \in abortedComms_
  /\ \A h \in Range(ncclIdToCommMap_[x]) : comms[h].aborted

\* C3: in blocking-wait mode, when the abort marker of a cached group's id
\* is in the store and the id is not in the locally-aborted set, the
\* watchdog, as long as it runs, eventually aborts every communicator of
\* the group the reverse index gives for the id and adds the id to the set.
C3_AbortMarkerPropagates ==
  \A x \in HexIds :
    (/\ blockingWait_
     /\ getNcclAbortedCommStoreKey(x) \in DOMAIN store
     /\ Cached(x)
     /\ x \notin abortedComms_)
      ~> (AbortedLocally(x) \/ crashed)

\* A marker this process never wrote has made the watchdog abort a group
\* none of whose communicators reports an error.
C3_Witness ==
  \E x \in HexIds :
    /\ blockingWait_
    /\ Cached(x)
    /\ getNcclAbortedCommStoreKey(x) \in DOMAIN store \ ownSets
    /\ x \in DOMAIN ncclIdToCommMap_
    /\ AbortedLocally(x)
    /\ \A h \in Range(ncclIdToCommMap_[x]) : ~comms[h].asyncErr

\* C4: in blocking-wait mode, at the end of a watchdog iteration (the
\* condition-variable sleep), every cached group that reported an error in
\* the iteration's scan has all its communicators aborted, its id in the
\* locally-aborted set and its abort marker in the store.
C4_ErrorAbortedRecordedPublished ==
  (blockingWait_ /\ wd.pc = "sleep") =>
    \A k \in wd.errKeys :
      /\ \A h \in Range(devNCCLCommMap_[k]) : comms[h].aborted
      /\ GroupIdStr(devNCCLCommMap_[k]) \in abortedComms_
      /\ getNcclAbortedCommStoreKey(GroupIdStr(devNCCLCommMap_[k]))
           \in DOMAIN store

\* An iteration whose scan found an erroring group of two communicators,
\* only one of which reports the error, has reached its sleep.
C4_Witness ==
  /\ blockingWait_
  /\ wd.pc = "sleep"
  /\ \E k \in wd.errKeys :
       /\ Len(devNCCLCommMap_[k]) = 2
       /\ \E h \in Range(devNCCLCommMap_[k]) : ~comms[h].asyncErr

\* C5: with blocking wait disabled this process aborts no communicator,
\* sets no abort marker and raises no timeout, whatever the watchdog and
\* synchronize() see.
C5_NonBlockingNeverAborts ==
  ~blockingWait_ =>
    /\ \A h \in DOMAIN comms : ~comms[h].aborted
    /\ ownSets \cap AbortMarkerKeys = {}
    /\ abortedComms_ = {}
    /\ lastOp.res \notin {"timeout", "crash"}
    /\ \A t \in Threads : thr[t].pc # "sync_timeout"

\* Without blocking wait: an erroring communicator has been seen by the
\* watchdog's scan, another rank's marker for it is in the store, the
\* iteration is over, and a synchronize() has returned past the timeout.
C5_Witness ==
  /\ ~blockingWait_
  /\ wd.pc = "sleep"
  /\ wd.errKeys # {}
  /\ \E k \in wd.errKeys :
       getNcclAbortedCommStoreKey(GroupIdStr(devNCCLCommMap_[k]))
         \in DOMAIN store
  /\ lastOp.op = "synchronize"
  /\ lastOp.res = "ok"
  /\ ~finishedGPUExecutionInternal(lastOp.w)
  /\ TimedOut(lastOp.w)

C7_SuccessOnlyWhenReadyAndClean ==
  (lastOp.op = "isSuccess" /\ lastOp.res = "true") =>
    /\ works[lastOp.w].exception_ = NoErr
    /\ \A h \in Range(works[lastOp.w].ncclComms_) : ~comms[h].asyncErr
    /\ \A i \in DOMAIN works[lastOp.w].cudaEvents_ :
         works[lastOp.w].cudaEvents_[i]

\* isSuccess() has returned true on a Work over two devices.
C7_Witness ==
  /\ lastOp.op = "isSuccess"
  /\ lastOp.res = "true"
  /\ Len(works[lastOp.w].devices) = 2

\* C8: once a Work's error slot holds an error it holds that error in
\* every later state.
C8_ErrorSlotSticky ==
  [][\A w \in DOMAIN works :
       works[w].exception_ # NoErr =>
         works'[w].exception_ = works[w].exception_]_vars

\* Device lists a DeviceKey can come from.
AllDeviceLists ==
  {ds \in UNION {[1..n -> 0..(NumGPUs - 1)] : n \in 1..NumGPUs} :
     \A i, j \in DOMAIN ds : i # j => ds[i] # ds[j]}

\* The number of devices in a DeviceKey.
KeyDeviceCount(k) ==
  Len(CHOOSE ds \in AllDeviceLists : getKeyFromDevices(ds) = k)

\* C9: every DeviceKey of the communicator cache is in the stream cache and
\* in the sync-event cache, and the three entries have as many elements as
\* the key has devices.
C9_CachesAgreeInLength ==
  \A k \in DOMAIN devNCCLCommMap_ :
    /\ k \in DOMAIN ncclStreams_
    /\ k \in DOMAIN ncclEvents_
    /\ Len(devNCCLCommMap_[k]) = KeyDeviceCount(k)
    /\ Len(ncclStreams_[k]) = KeyDeviceCount(k)
    /\ Len(ncclEvents_[k]) = KeyDeviceCount(k)

\* A key of one device and a key of two devices are cached.
C9_Witness ==
  /\ "0" \in DOMAIN devNCCLCommMap_
  /\ "0,1" \in DOMAIN devNCCLCommMap_

\* C10: the reverse index agrees with the DeviceKey cache: every cached
\* group is the reverse index's value at its own hex id, and every value of
\* the reverse index is a cached group.
C10_ReverseIndexAgrees ==
  /\ \A k \in DOMAIN devNCCLCommMap_ :
       /\ GroupIdStr(devNCCLCommMap_[k]) \in DOMAIN ncclIdToCommMap_
       /\ ncclIdToCommMap_[GroupIdStr(devNCCLCommMap_[k])] = devNCCLCommMap_[k]
  /\ \A x \in DOMAIN ncclIdToCommMap_ :
       \E k \in DOMAIN devNCCLCommMap_ :
         devNCCLCommMap_[k] = ncclIdToCommMap_[x]


SameOrder(r) ==
  \A k \in (DOMAIN procs[r].order) \cap (DOMAIN procs[0].order) :
    procs[r].order[k] = procs[0].order[k]

\* C12: the k-th creation of a rank uses the store key that is the decimal
\* string of k-1, set by rank 0 to the id it minted and read by the other
\* ranks; when a rank creates in rank 0's order, its group of a DeviceKey
\* has the id of rank 0's group of that DeviceKey; and a rank other than 0
\* waiting on a key rank 0 has set gets past its store_->get.
C12_RendezvousAgreement ==
  /\ [](\A r \in Ranks :
          /\ procs[r].pc \in {"get", "create"} =>
               procs[r].skey = to_string(Len(procs[r].order))
          /\ procs[r].pc = "create" => procs[r].id = jobStore[procs[r].skey]
          /\ \A k \in DOMAIN procs[r].order :
               /\ to_string(k - 1) \in DOMAIN jobStore
               /\ procs[r].cache[procs[r].order[k]] = jobStore[to_string(k - 1)]
          /\ SameOrder(r) =>
               \A key \in (DOMAIN procs[r].cache) \cap (DOMAIN procs[0].cache) :
                 procs[r].cache[key] = procs[0].cache[key])
  /\ \A r \in Ranks \ {0} :
       (procs[r].pc = "get" /\ procs[r].skey \in DOMAIN jobStore)
         ~> (procs[r].pc # "get")

\* Both ranks have created the groups of two DeviceKeys in the same order.
C12_Witness ==
  /\ Len(procs[0].order) = 2
  /\ procs[1].order = procs[0].order
  /\ \A key \in DOMAIN procs[1].cache :
       procs[1].cache[key] = procs[0].cache[key]

\* The ranks have created the groups of the same DeviceKeys in different
\* orders, and all creations are complete.
MismatchedOrdersComplete ==
  \E r \in Ranks \ {0} :
    /\ procs[0].pc = "idle" /\ procs[r].pc = "idle"
    /\ Len(procs[0].order) >= 2
    /\ Len(procs[r].order) = Len(procs[0].order)
    /\ Range(procs[r].order) = Range(procs[0].order)
    /\ procs[r].order # procs[0].order

\* C13 as stated: ranks that create the groups of their DeviceKeys in
\* different orders never all complete their creations.
C13_MismatchedOrdersDeadlock == ~MismatchedOrdersComplete

\* All ranks have started, resp. completed, their k-th creation.
AllStarted(k) == \A r \in Ranks : procs[r].ncclCommCounter_ >= k

AllCreated(k) == \A r \in Ranks : Len(procs[r].order) >= k

\* C13 as amended: the rendezvous pairs the ranks' creations by their
\* ordinal, whatever the DeviceKeys: once every rank has started its k-th
\* creation every rank completes it, the k-th groups of all ranks have the
\* same id, and a DeviceKey created at different ordinals on two ranks has
\* different ids there.
C13_RendezvousPairsByOrdinal ==
  /\ \A k \in 1..NumGPUs : AllStarted(k) ~> AllCreated(k)
  /\ [](\A r \in Ranks :
          /\ \A k \in (DOMAIN procs[r].order) \cap (DOMAIN procs[0].order) :
               procs[r].cache[procs[r].order[k]]
                 = procs[0].cache[procs[0].order[k]]
          /\ \A i \in DOMAIN procs[r].order : \A j \in DOMAIN procs[0].order :
               (i # j /\ procs[r].order[i] = procs[0].order[j]) =>
                 procs[r].cache[procs[r].order[i]]
                   # procs[0].cache[procs[0].order[j]])

\* Rank 0 created "0" then "1", rank 1 created "1" then "0", all creations
\* are complete, and the ranks' groups of DeviceKey "0" have different ids.
C13_Witness ==
  /\ MismatchedOrdersComplete
  /\ procs[0].order = <<"0", "1">>
  /\ procs[1].order = <<"1", "0">>
  /\ procs[0].cache["0"] # procs[1].cache["0"]


\* C14: a collective call that fails with an invalid-argument error leaves
\* the four caches, the used device indices, the rendezvous counter and the
\* store as they were before the call, creates no communicator and opens
\* no vendor group scope.
C14_InvalidArgumentNoSideEffects ==
  lastOp.res = "invalid" => lastOp.before = Snapshot

\* The reduce ops the fixed table maps.
SupportedReduceOps == {"SUM", "PRODUCT", "MIN", "MAX"}

\* C15: no vendor primitive is submitted for a reduce op other than sum,
\* product, min and max (the call fails with an invalid-argument error),
\* and the reduce-op table stays as defined.
C15_UnsupportedReduceOpRejected ==
  /\ \A w \in DOMAIN works :
       works[w].reduceOp \in SupportedReduceOps \cup {"none"}
  /\ ncclOp = ncclOpInit

\* C16: every call of allreduce_coalesced, allgather_coalesced,
\* allgather_base, gather, scatter, send, recv, recv_any_source and of
\* Work.abort() fails with an unsupported error, whatever its arguments,
\* and leaves the caches, the rendezvous counter, the used device indices
\* and the store unchanged.
C16_UnsupportedAlwaysThrows ==
  lastOp.op \in UnsupportedEntryPoints \cup {"abort"} =>
    /\ lastOp.res = "unsupported"
    /\ lastOp.before = Snapshot

\* send and Work.abort() have failed on a process group whose caches hold
\* a group.
C16_Witness ==
  /\ lastOp.op \in {"send", "abort"}
  /\ lastOp.res = "unsupported"
  /\ devNCCLCommMap_ # EmptyMap
  /\ works # <<>>

\* C20: every storage a submission asks the vendor library to read was
\* recorded with the caching allocator against the stream that reads it
\* before the submission.
C20_InputStoragesRecorded ==
  \A w \in DOMAIN works : works[w].reads \subseteq works[w].recorded


\* The mathematical sum of a list of split sizes.
RECURSIVE MathSum(_)
MathSum(split_sizes) ==
  IF split_sizes = <<>> THEN 0
  ELSE split_sizes[1] + MathSum(Tail(split_sizes))

\* C17: checkSplitSizes succeeds exactly when splits is empty and dimension
\* 0 is divisible by the group size, or splits has group-size entries whose
\* mathematical sum is the size of dimension 0.
C17_SplitSizesCheckedExactly ==
  (pure.fn = "checkSplitSizes" /\ pure.done) =>
    (pure.result = "ok" <=>
       \/ pure.split_sizes = <<>> /\ pure.dim0 % size_ = 0
       \/ /\ Len(pure.split_sizes) = size_
          /\ MathSum(pure.split_sizes) = pure.dim0)


\* C18: the constructor enables blocking wait exactly when
\* NCCL_BLOCKING_WAIT is "1", disables it exactly when it is "0" or unset,
\* and fails for every other value.
C18_BlockingWaitParsedStrictly ==
  (pure.fn = "ProcessGroupNCCL" /\ pure.done) =>
    pure.result = IF pure.blockingWait = EnvStr(<<"1">>) THEN "true"
                  ELSE IF pure.blockingWait \in {Unset, EnvStr(<<"0">>)}
                  THEN "false"
                  ELSE "error"

\* C19: with no_copy requested, device i gets a view over its list's
\* storage exactly when the list's tensors are contiguous views into the
\* first one's storage and the other tensor is apart or at the rank's
\* slot, whatever holds for the other devices.
C19_NoCopyPerDevice ==
  (pure.fn = "flatten_for_scatter_gather" /\ pure.done /\ pure.no_copy) =>
    \A i \in DOMAIN pure.tensor_lists :
      pure.result[i] = "view" <=>
        /\ ListIsFlat(pure.tensor_lists[i])
        /\ OtherIsAligned(pure.other[i], pure.tensor_lists[i], rank_)


\* C30: two ncclUniqueIds that differ in a byte never give the same hex
\* string, and the hex string has two digits per byte.
C30_HexSerializationInjective ==
  (pure.fn = "buildNcclUniqueIdStr" /\ pure.done) =>
    /\ pure.a # pure.b => pure.result[1] # pure.result[2]
    /\ Len(pure.result[1]) = 2 * NCCL_UNIQUE_ID_BYTES


\* C23: the caches and the locally-aborted set change only while no other
\* thread holds mutex_, and a DeviceKey enters the communicator, stream and
\* sync-event caches, and its group the reverse index, in one critical
\* section: in every state a DeviceKey is in all of them or in none.
C23_CachesPublishedTogether ==
  /\ [](/\ DOMAIN ncclStreams_ = DOMAIN devNCCLCommMap_
        /\ DOMAIN ncclEvents_ = DOMAIN devNCCLCommMap_
        /\ \A k \in DOMAIN devNCCLCommMap_ :
             GroupIdStr(devNCCLCommMap_[k]) \in DOMAIN ncclIdToCommMap_)
  /\ [][<<devNCCLCommMap_, ncclStreams_, ncclEvents_, ncclIdToCommMap_,
           abortedComms_>>' # <<devNCCLCommMap_, ncclStreams_, ncclEvents_,
                                ncclIdToCommMap_, abortedComms_>>
          => (mutex_ = Free /\ mutex_' = Free)]_vars

\* The watchdog's next statement is a vendor call (an error query or an
\* abort of a cached communicator) or a store call (set, wait).
WatchdogAtVendorOrStoreCall ==
  \/ wd.pc = "scan" /\ devNCCLCommMap_ # EmptyMap
  \/ wd.pc = "publish" /\ blockingWait_ /\ wd.abortedCommIds # {}
  \/ wd.pc = "wait" /\ wd.todo \ abortedComms_ # {}

\* C24: mutex_ is not held while a vendor call or a store call is in
\* progress (the callers take and release it within their lookup and their
\* publication, which make neither): the watchdog does not hold it when it
\* queries or aborts communicators.
C24_MutexNotHeldAcrossVendorCalls ==
  mutex_ = "watchdog" => ~WatchdogAtVendorOrStoreCall


\* C25: once the destructor has stored the termination flag, the watchdog
\* loop is left and the destructor's join returns, whether or not the
\* notification reaches the watchdog; the join returns only after the
\* watchdog's thread function has.
C25_WatchdogShutdown ==
  /\ terminateWatchdog_ ~> (dtor = "done")
  /\ [](dtor = "done" => wd.pc = "done")

\* The destructor has notified and is joining, and the watchdog, which
\* tested the predicate before the flag was stored, waits on the condition
\* variable without having got the notification.
C25_Witness ==
  /\ dtor = "join"
  /\ wd.pc = "cv_wait"
  /\ ~wd.notified
  /\ devNCCLCommMap_ # EmptyMap


\* C21: an exception thrown in the watchdog loop ends at most the watchdog
\* thread: it is caught and logged, mutex_ is released, no caller thread's
\* frame and no Work changes and the process does not die; an exception
\* thrown while one id's store wait is handled leaves the watchdog in its
\* loop over the ids.
C21_WatchdogErrorsContained ==
  /\ [](lastOp.op = "watchdog" =>
         /\ ~crashed
         /\ mutex_ = Free
         /\ wd.pc = IF lastOp.res = "wait" THEN "wait" ELSE "done")
  /\ [][lastOp'.op = "watchdog" =>
         /\ thr' = thr
         /\ works' = works
         /\ crashed' = crashed]_vars

\* The abort of a group of two communicators found in the store has failed
\* after the first was aborted, and the watchdog is still in its loop over
\* the ids.
C21_Witness ==
  /\ lastOp.op = "watchdog"
  /\ lastOp.res = "wait"
  /\ wd.pc = "wait"
  /\ \E h \in DOMAIN comms : comms[h].aborted
  /\ \E h \in DOMAIN comms : ~comms[h].aborted


\* The abort-marker keys this process calls store_->set on in the step:
\* those of the watchdog's publication, and those of a timeout branch.
MarkerSetsIssued ==
  (IF wd.pc = "publish" /\ blockingWait_ /\ wd'.pc = "wait"
   THEN PublishKeys(wd.abortedCommIds) ELSE {})
    \cup UNION {IF /\ thr[t].pc = "sync_timeout"
                   /\ works[thr[t].w].store_
                   /\ thr'[t].pc = "idle"
                THEN WorkAbortKeys(thr[t].w) ELSE {} : t \in Threads}

\* C22: an abort marker that is in the store stays there with an empty
\* value, and this process calls store_->set on a marker key at most once
\* (it never sets a marker key it has set before).
C22_AbortMarkersWriteOnce ==
  /\ [][\A k \in AbortMarkerKeys \cap DOMAIN store :
          k \in DOMAIN store' /\ store'[k] = <<>>]_vars
  /\ [][MarkerSetsIssued \cap ownSets = {}]_vars


\* C26: with blocking wait, every synchronize() (and wait()) that was
\* entered returns or raises, as long as the caller runs and time advances.
C26_BlockingSynchronizeTerminates ==
  (blockingWait_ /\ thr[1].op = "synchronize")
    ~> (thr[1].op # "synchronize")


\* C27: with blocking wait, a synchronize() (or wait()) that returns
\* normally has found every completion event of its Work ready and the
\* error slot empty; a loop left on a captured error ends in a raise.
C27_NormalReturnMeansCompleteAndClean ==
  (/\ lastOp.op = "synchronize"
   /\ lastOp.res = "ok"
   /\ works[lastOp.w].blockingWait_) =>
    /\ finishedGPUExecutionInternal(lastOp.w)
    /\ ~exception(lastOp.w)


\* The place of a call in the order the drivers are to keep for a device:
\* sync event recorded, collective stream made to wait, pre hook, vendor
\* operation enqueued, group closed, post hook, completion event recorded.
Phase(step) ==
  CASE step.act = "ncclEvent.record" -> 1
    [] step.act = "ncclEvent.block" -> 2
    [] step.act = "pre" -> 3
    [] step.act = "ncclGroupStart" -> 4
    [] step.act \in {"fn", "ncclSend", "ncclRecv"} -> 5
    [] step.act = "ncclGroupEnd" -> 6
    [] step.act = "post" -> 7
    [] step.act = "cudaEvents_.record" -> 8
    [] OTHER -> 0

\* C28: in the calls a driver made for a Work, for every device i: the
\* sync event is recorded and collective stream i made to wait on it, then
\* the pre hook (collective() has one) runs, then the vendor operation is
\* enqueued between ncclGroupStart and ncclGroupEnd, then the post hook
\* runs, then completion event i is recorded, on the stream the operation
\* of device i was enqueued on; every device has all of these calls.
C28_DriverOrderPerDevice ==
  \A w \in DOMAIN works :
    LET tr == works[w].trace
        For(i) == {p \in DOMAIN tr : Phase(tr[p]) > 0 /\ tr[p].i \in {0, i}}
    IN  \A i \in DOMAIN works[w].devices :
          /\ \A p, q \in For(i) : Phase(tr[p]) < Phase(tr[q]) => p < q
          /\ \A ph \in {1, 2, 4, 5, 6, 8} : \E p \in For(i) : Phase(tr[p]) = ph
          /\ works[w].op = "collective" =>
               \A ph \in {3, 7} : \E p \in For(i) : Phase(tr[p]) = ph
          /\ \A p, q \in For(i) :
               (Phase(tr[p]) \in {2, 5} /\ tr[p].i = i /\ Phase(tr[q]) = 8
                  /\ tr[q].i = i)
                 => tr[p].stream = tr[q].stream

\* Works of collective() over two devices and of batchedp2p() have been
\* handed out.
C28_Witness ==
  /\ \E w \in DOMAIN works :
       works[w].op = "collective" /\ Len(works[w].devices) = 2
  /\ \E w \in DOMAIN works : works[w].op = "p2p"


\* C29: a caller thread that is not inside collective() or batched p2p
\* (the call has returned or raised) does not hold the allocator's free
\* mutex, whichever vendor call of the grouped submission failed.
C29_FreeMutexReleasedOnEveryExit ==
  \A t \in Threads : thr[t].pc = "idle" => t \notin freeMutex


\* The sum of a sequence of integers.
RECURSIVE SumSeq(_)
SumSeq(q) == IF q = <<>> THEN 0 ELSE q[1] + SumSeq(Tail(q))

\* C31: when alltoall_base reaches batchedp2p, no split-size list was read
\* beyond its length, an empty list gave the equal split of the tensor
\* across the group, the send lengths sum to the input's element count and
\* the receive lengths to the output's.
C31_SplitSizesReadInBounds ==
  (pure.fn = "alltoall_base" /\ pure.done /\ pure.result.status = "ok") =>
    /\ ~pure.result.beyond
    /\ Len(pure.inputSplitSizes) = 0 =>
         \A i \in 1..size_ :
           pure.result.send_lengths[i] = numel(pure.inputTensor) \div size_
    /\ Len(pure.outputSplitSizes) = 0 =>
         \A i \in 1..size_ :
           pure.result.recv_lengths[i] = numel(pure.outputTensor) \div size_
    /\ SumSeq(pure.result.send_lengths) = numel(pure.inputTensor)
    /\ SumSeq(pure.result.recv_lengths) = numel(pure.outputTensor)


\* Caller threads inside getNCCLComm.
InGetNCCLComm ==
  {t \in Threads :
     thr[t].pc \in {"gc_check", "gc_bcast", "gc_get", "gc_create",
                    "gc_publish"}}

\* C32: the rendezvous counter advances once per DeviceKey: a getNCCLComm
\* that finds its DeviceKey in the cache leaves the counter, the store and
\* the four caches as they are, and whenever no getNCCLComm is in progress
\* the counter equals the number of DeviceKeys in the communicator cache.
C32_CounterOncePerDeviceKey ==
  /\ [](InGetNCCLComm = {} =>
         ncclCommCounter_ = Cardinality(DOMAIN devNCCLCommMap_))
  /\ [][\A t \in Threads :
          (thr[t].pc = "gc_check" /\ thr'[t].pc = "submit") =>
            /\ ncclCommCounter_' = ncclCommCounter_
            /\ store' = store
            /\ devNCCLCommMap_' = devNCCLCommMap_
            /\ ncclStreams_' = ncclStreams_
            /\ ncclEvents_' = ncclEvents_
            /\ ncclIdToCommMap_' = ncclIdToCommMap_]_vars

====
